---- MODULE Spec2Model ----
(***************************************************************************)
(* Wumpus-World agent: the knowledge store (knowledgeBase.py,              *)
(* PropositionalKB) and the decision policy (inferenceEngine.py,           *)
(* InferenceEngine), driven call by call as main.py drives them.           *)
(*                                                                         *)
(* Conventions                                                             *)
(*   - a position is <<x, y>>, 0-based, as the Python tuples (x, y);       *)
(*   - a fact is <<pred, x, y>>, the content of the string f"pred(x,y)";   *)
(*   - a confidence is held in tenths: 0, 2, 5, 10 for 0.0, 0.2, 0.5, 1.0; *)
(*   - Python's None is the string "None"; a raised exception is the       *)
(*     result "ERROR".                                                     *)
(* The trace strings last_reasoning / last_inference and the audit list    *)
(* visited_positions are written but never read by the code and are left   *)
(* out of the state.                                                       *)
(***************************************************************************)
EXTENDS Integers, Sequences, FiniteSets, TLC

\* Side of the square grid (PropositionalKB.grid_size).
GridSize == 3
\* Number of API calls explored from the initial state.
MaxCalls == 3
\* In SpecPolicy: the calls that may be updates, and the number of calls.
MaxSetupCalls == 2
MaxPolicyCalls == 8
\* In SpecHazards: the calls made with any percepts, and the number of calls.
MaxWideCalls == 2
MaxHazardCalls == 5
\* In SpecTiers: the calls that are updates, and the number of calls.
MaxTierUpdates == 5
MaxTierCalls == 6
\* In SpecSearch: the number of calls (the first MaxSetupCalls are updates).
MaxSearchCalls == 7
\* In SpecHistory: the number of calls (the first MaxSetupCalls are updates).
MaxHistoryCalls == 12
\* In SpecDual: the number of updates.
MaxDualCalls == 4
\* In SpecBacktrack: the calls that may be updates, and the number of calls.
MaxBacktrackUpdates == 8
MaxBacktrackCalls == 9

VARIABLES
    facts,            \* PropositionalKB.facts
    cell_confidence,  \* PropositionalKB.cell_confidence: position -> [pit, wumpus]
    playing_grid,     \* PropositionalKB.playing_grid, indexed by position
    gold_cell,        \* PropositionalKB.gold_cell
    move_history,     \* InferenceEngine.move_history
    pos,              \* the position of the agent (argument of the calls)
    last,             \* the last call made: operation, arguments, result
    calls,            \* number of calls made so far
    world,            \* WumpusEnvironment: pit_positions, wumpus_positions, gold_position
    game,             \* GameState: game_over, agent_alive, has_gold, visited_cells, game_status
    tasks,            \* the coroutines of main.py: task -> [pc, percepts, action, store]
    running           \* the coroutine that holds the event loop, or None

vars == <<facts, cell_confidence, playing_grid, gold_cell, move_history, pos, last, calls,
          world, game, tasks, running>>

\* the environment and the driver of main.py
driver == <<world, game, tasks, running>>

None == "None"

Pos == (0 .. GridSize - 1) \X (0 .. GridSize - 1)

InGrid(p) == 0 <= p[1] /\ p[1] < GridSize /\ 0 <= p[2] /\ p[2] < GridSize

\* _get_adjacent_cells: the in-grid neighbours in the order (0,1),(0,-1),(1,0),(-1,0)
GetAdjacentCells(p) ==
    SelectSeq(<< <<p[1], p[2] + 1>>, <<p[1], p[2] - 1>>,
                 <<p[1] + 1, p[2]>>, <<p[1] - 1, p[2]>> >>, InGrid)

SeqToSet(s) == {s[i] : i \in 1 .. Len(s)}

Fact(pred, p) == <<pred, p[1], p[2]>>

(***************************************************************************)
(* The knowledge store.  A store value kb is the record                    *)
(* [facts, conf, grid, gold] of the four fields of PropositionalKB.        *)
(***************************************************************************)

\* add_fact
AddFactTo(kb, f) == [kb EXCEPT !.facts = @ \cup {f}]

\* query
Query(kb, f) == f \in kb.facts

\* get_confidence: 0.0 for a position the dictionary does not hold
GetConfidence(kb, p, threat) ==
    IF p \notin DOMAIN kb.conf THEN 0 ELSE kb.conf[p][threat]

\* set_confidence: creates the entry {'pit': 0.0, 'wumpus': 0.0} when missing
SetConfidence(kb, p, threat, value) ==
    LET base == IF p \in DOMAIN kb.conf
                THEN kb.conf
                ELSE [q \in DOMAIN kb.conf \cup {p} |->
                         IF q = p THEN [pit |-> 0, wumpus |-> 0] ELSE kb.conf[q]]
    IN  [kb EXCEPT !.conf = [base EXCEPT ![p][threat] = value]]

(***************************************************************************)
(* Rules.  A rule is [kind, args, conclusion]: kind "ATOM" has one fact in *)
(* args, kind "AND" / "OR" the facts of the compound premise.              *)
(***************************************************************************)

\* can_infer
CanInfer(F, rule) ==
    CASE rule.kind = "ATOM" -> rule.args[1] \in F
      [] rule.kind = "AND"  -> \A i \in 1 .. Len(rule.args) : rule.args[i] \in F
      [] rule.kind = "OR"   -> \E i \in 1 .. Len(rule.args) : rule.args[i] \in F
      [] OTHER -> FALSE

AtomRules(premise, pred, adj) ==
    [i \in 1 .. Len(adj) |->
        [kind |-> "ATOM", args |-> <<premise>>, conclusion |-> Fact(pred, adj[i])]]

\* the Safe rules with the premise NoPit or NoWumpus instead of NoPit and NoWumpus
SafeRulesEither(adj) ==
    [i \in 1 .. Len(adj) |->
        [kind |-> "OR",
         args |-> <<Fact("NoPit", adj[i]), Fact("NoWumpus", adj[i])>>,
         conclusion |-> Fact("Safe", adj[i])]]

SafeRules(adj) ==
    [i \in 1 .. Len(adj) |->
        [kind |-> "AND",
         args |-> <<Fact("NoPit", adj[i]), Fact("NoWumpus", adj[i])>>,
         conclusion |-> Fact("Safe", adj[i])]]

\* the rules add_wumpus_rules registers for the cell (x, y)
CellRules(p) ==
    LET adj == GetAdjacentCells(p)
    IN  AtomRules(Fact("NoBreeze", p), "NoPit", adj)
        \o AtomRules(Fact("NoStench", p), "NoWumpus", adj)
        \o SafeRules(adj)

RECURSIVE RulesFrom(_)
\* cells are numbered k = y * GridSize + x: the loop is for y, for x
RulesFrom(k) ==
    IF k >= GridSize * GridSize THEN <<>>
    ELSE CellRules(<<k % GridSize, k \div GridSize>>) \o RulesFrom(k + 1)

\* add_wumpus_rules: the rule list after main.py's reset
Rules == RulesFrom(0)

\* forward_chain leaving after the first conclusion it adds
ForwardChainFirstOnly(F) ==
    LET open == {i \in 1 .. Len(Rules) : CanInfer(F, Rules[i]) /\ Rules[i].conclusion \notin F}
    IN  IF open = {} THEN F
        ELSE F \cup {Rules[CHOOSE i \in open : \A j \in open : i <= j].conclusion}

RECURSIVE ChainPass(_, _)
\* one execution of the for loop of forward_chain, from rule i on
ChainPass(F, i) ==
    IF i > Len(Rules) THEN F
    ELSE IF CanInfer(F, Rules[i]) /\ Rules[i].conclusion \notin F
         THEN ChainPass(F \cup {Rules[i].conclusion}, i + 1)
         ELSE ChainPass(F, i + 1)

\* forward_chain testing every premise against the facts it was called with only
ForwardChainOnePassOnly(F) ==
    LET open == {i \in 1 .. Len(Rules) : CanInfer(F, Rules[i]) /\ Rules[i].conclusion \notin F}
    IN  F \cup {Rules[i].conclusion : i \in open}

RECURSIVE ForwardChainFacts(_)
\* forward_chain: passes until one adds nothing
ForwardChainFacts(F) ==
    LET G == ChainPass(F, 1)
    IN  IF G = F THEN F ELSE ForwardChainFacts(G)

ForwardChain(kb) == [kb EXCEPT !.facts = ForwardChainFacts(@)]

(***************************************************************************)
(* update_knowledge_base and its case handlers.                            *)
(***************************************************************************)

RECURSIVE MarkSafeLoopRetracting(_, _, _)
\* _mark_adjacent_safe discarding the suspicion facts of the cells it clears
MarkSafeLoopRetracting(kb, adj, i) ==
    IF i > Len(adj) THEN kb
    ELSE MarkSafeLoopRetracting(
            SetConfidence(
                SetConfidence(
                    [kb EXCEPT !.facts = (@ \ {Fact("PossiblePit", adj[i]),
                                               Fact("PossibleWumpus", adj[i])})
                                         \cup {Fact("Safe", adj[i])}],
                    adj[i], "pit", 0),
                adj[i], "wumpus", 0),
            adj, i + 1)

RECURSIVE MarkSafeLoop(_, _, _)
\* the for loop of _mark_adjacent_safe
MarkSafeLoop(kb, adj, i) ==
    IF i > Len(adj) THEN kb
    ELSE MarkSafeLoop(
            SetConfidence(
                SetConfidence(AddFactTo(kb, Fact("Safe", adj[i])), adj[i], "pit", 0),
                adj[i], "wumpus", 0),
            adj, i + 1)

\* _mark_adjacent_safe
MarkAdjacentSafe(kb, position) == MarkSafeLoop(kb, GetAdjacentCells(position), 1)

\* the unvisited_cells list of the three handlers
UnvisitedCells(kb, adj) ==
    LET NotVisited(q) == ~Query(kb, Fact("Visited", q))
    IN  SelectSeq(adj, NotVisited)

\* the neighbours whose confidence for threat is exactly value
CellsAt(kb, adj, threat, value) ==
    LET Test(q) == GetConfidence(kb, q, threat) = value
    IN  SelectSeq(adj, Test)

\* the value the "lower confidence for others" branch writes
LoweredConfidence == 2

RECURSIVE LowerOthersLoopDecrement(_, _, _, _, _)
\* the lowering loop taking 0.2 off the confidence instead of setting it to 0.2
LowerOthersLoopDecrement(kb, cells, definite, threat, i) ==
    IF i > Len(cells) THEN kb
    ELSE LowerOthersLoopDecrement(
            IF cells[i] \notin SeqToSet(definite) /\ GetConfidence(kb, cells[i], threat) > 0
            THEN SetConfidence(kb, cells[i], threat,
                               GetConfidence(kb, cells[i], threat) - LoweredConfidence)
            ELSE kb,
            cells, definite, threat, i + 1)

RECURSIVE LowerOthersLoopRaising(_, _, _, _, _)
\* the lowering loop without the test of the current confidence: a cell at 0.0
\* is raised to 0.2
LowerOthersLoopRaising(kb, cells, definite, threat, i) ==
    IF i > Len(cells) THEN kb
    ELSE LowerOthersLoopRaising(
            IF cells[i] \notin SeqToSet(definite)
            THEN SetConfidence(kb, cells[i], threat, LoweredConfidence)
            ELSE kb,
            cells, definite, threat, i + 1)

RECURSIVE LowerOthersLoop(_, _, _, _, _)
\* for nx, ny in unvisited_cells: if not definite and current_conf > 0: set 0.2
LowerOthersLoop(kb, cells, definite, threat, i) ==
    IF i > Len(cells) THEN kb
    ELSE LowerOthersLoop(
            IF cells[i] \notin SeqToSet(definite) /\ GetConfidence(kb, cells[i], threat) > 0
            THEN SetConfidence(kb, cells[i], threat, LoweredConfidence)
            ELSE kb,
            cells, definite, threat, i + 1)

RECURSIVE MarkPossibleLoop(_, _, _, _, _)
\* for nx, ny in unvisited_cells: if not Safe: set 0.5 and add Possible<threat>
MarkPossibleLoop(kb, cells, threat, possibleName, i) ==
    IF i > Len(cells) THEN kb
    ELSE MarkPossibleLoop(
            IF ~Query(kb, Fact("Safe", cells[i]))
            THEN AddFactTo(SetConfidence(kb, cells[i], threat, 5),
                           Fact(possibleName, cells[i]))
            ELSE kb,
            cells, threat, possibleName, i + 1)

\* set_confidence(cell, threat, 1.0); add_fact(Definite<threat>(cell))
MarkDefinite(kb, cell, threat, definiteName) ==
    AddFactTo(SetConfidence(kb, cell, threat, 10), Fact(definiteName, cell))

\* the single-signal deduction testing the single unvisited neighbour ahead of
\* the single suspected neighbour
ProcessSingleSignalUnvisitedFirst(kb, position, threat, definiteName, possibleName) ==
    LET adj       == GetAdjacentCells(position)
        unvisited == UnvisitedCells(kb, adj)
        definite  == CellsAt(kb, adj, threat, 10)
        possible  == CellsAt(kb, adj, threat, 5)
    IN  IF definite # <<>>
        THEN LowerOthersLoop(kb, unvisited, definite, threat, 1)
        ELSE IF Len(unvisited) = 1
             THEN MarkDefinite(kb, unvisited[1], threat, definiteName)
             ELSE IF Len(possible) = 1
                  THEN MarkDefinite(kb, possible[1], threat, definiteName)
                  ELSE MarkPossibleLoop(kb, unvisited, threat, possibleName, 1)

\* the common body of _process_breeze (pit) and _process_stench (wumpus)
ProcessSingleSignal(kb, position, threat, definiteName, possibleName) ==
    LET adj       == GetAdjacentCells(position)
        unvisited == UnvisitedCells(kb, adj)
        definite  == CellsAt(kb, adj, threat, 10)
        possible  == CellsAt(kb, adj, threat, 5)
    IN  IF definite # <<>>
        THEN LowerOthersLoop(kb, unvisited, definite, threat, 1)
        ELSE IF Len(possible) = 1
             THEN MarkDefinite(kb, possible[1], threat, definiteName)
             ELSE IF Len(unvisited) = 1
                  THEN MarkDefinite(kb, unvisited[1], threat, definiteName)
                  ELSE MarkPossibleLoop(kb, unvisited, threat, possibleName, 1)

\* _process_breeze
ProcessBreeze(kb, position) ==
    ProcessSingleSignal(kb, position, "pit", "DefinitePit", "PossiblePit")

\* _process_stench
ProcessStench(kb, position) ==
    ProcessSingleSignal(kb, position, "wumpus", "DefiniteWumpus", "PossibleWumpus")

RECURSIVE MarkOtherLoop(_, _, _, _, _, _)
\* for nx, ny in unvisited_cells: if not in definite: set 0.5, add Possible<threat>
MarkOtherLoop(kb, cells, definite, threat, possibleName, i) ==
    IF i > Len(cells) THEN kb
    ELSE MarkOtherLoop(
            IF cells[i] \notin SeqToSet(definite)
            THEN AddFactTo(SetConfidence(kb, cells[i], threat, 5),
                           Fact(possibleName, cells[i]))
            ELSE kb,
            cells, definite, threat, possibleName, i + 1)

RECURSIVE MarkBothLoopPitOnly(_, _, _)
\* the loop of _process_breeze_and_stench recording the pit suspicion alone
MarkBothLoopPitOnly(kb, cells, i) ==
    IF i > Len(cells) THEN kb
    ELSE MarkBothLoopPitOnly(
            IF ~Query(kb, Fact("Safe", cells[i]))
            THEN AddFactTo(SetConfidence(kb, cells[i], "pit", 5),
                           Fact("PossiblePit", cells[i]))
            ELSE kb,
            cells, i + 1)

RECURSIVE MarkBothLoop(_, _, _)
\* for nx, ny in unvisited_cells: if not Safe: both kinds 0.5, both Possible facts
MarkBothLoop(kb, cells, i) ==
    IF i > Len(cells) THEN kb
    ELSE MarkBothLoop(
            IF ~Query(kb, Fact("Safe", cells[i]))
            THEN AddFactTo(
                    AddFactTo(
                        SetConfidence(SetConfidence(kb, cells[i], "pit", 5),
                                      cells[i], "wumpus", 5),
                        Fact("PossiblePit", cells[i])),
                    Fact("PossibleWumpus", cells[i]))
            ELSE kb,
            cells, i + 1)

\* _process_breeze_and_stench
ProcessBreezeAndStench(kb, position) ==
    LET adj            == GetAdjacentCells(position)
        unvisited      == UnvisitedCells(kb, adj)
        definitePits   == CellsAt(kb, adj, "pit", 10)
        definiteWumpus == CellsAt(kb, adj, "wumpus", 10)
    IN  IF definitePits # <<>>
        THEN MarkOtherLoop(kb, unvisited, definitePits, "wumpus", "PossibleWumpus", 1)
        ELSE IF definiteWumpus # <<>>
             THEN MarkOtherLoop(kb, unvisited, definiteWumpus, "pit", "PossiblePit", 1)
             ELSE MarkBothLoop(kb, unvisited, 1)

\* the projection testing the single pit suspicion ahead of the double suspicion
CellStatusPitFirst(kb, p) ==
    IF Query(kb, Fact("Visited", p)) THEN "1"
    ELSE IF Query(kb, Fact("Safe", p)) THEN "0"
    ELSE IF GetConfidence(kb, p, "pit") = 10 THEN "-4"
    ELSE IF GetConfidence(kb, p, "wumpus") = 10 THEN "-3"
    ELSE IF GetConfidence(kb, p, "pit") = 5 THEN "-2"
    ELSE IF GetConfidence(kb, p, "pit") = 5 /\ GetConfidence(kb, p, "wumpus") = 5 THEN "-5"
    ELSE IF GetConfidence(kb, p, "wumpus") = 5 THEN "-1"
    ELSE IF GetConfidence(kb, p, "pit") = 2 \/ GetConfidence(kb, p, "wumpus") = 2 THEN "-6"
    ELSE kb.grid[p]

\* the status update_playing_grid_from_kb gives one cell (the old one when no case applies)
CellStatus(kb, p) ==
    IF Query(kb, Fact("Visited", p)) THEN "1"
    ELSE IF Query(kb, Fact("Safe", p)) THEN "0"
    ELSE IF GetConfidence(kb, p, "pit") = 10 THEN "-4"
    ELSE IF GetConfidence(kb, p, "wumpus") = 10 THEN "-3"
    ELSE IF GetConfidence(kb, p, "pit") = 5 /\ GetConfidence(kb, p, "wumpus") = 5 THEN "-5"
    ELSE IF GetConfidence(kb, p, "pit") = 5 THEN "-2"
    ELSE IF GetConfidence(kb, p, "wumpus") = 5 THEN "-1"
    ELSE IF GetConfidence(kb, p, "pit") = 2 \/ GetConfidence(kb, p, "wumpus") = 2 THEN "-6"
    ELSE kb.grid[p]

\* the projection leaving a treasure marker on the grid where it finds one
UpdatePlayingGridKeepMarker(kb) ==
    [kb EXCEPT !.grid = [p \in Pos |-> IF kb.grid[p] = "99" THEN "99" ELSE CellStatus(kb, p)]]

\* update_playing_grid_from_kb
UpdatePlayingGridFromKb(kb) == [kb EXCEPT !.grid = [p \in Pos |-> CellStatus(kb, p)]]

\* the percept letter with the danger signals tested ahead of the treasure signal
PerceptTypeDangerFirst(percepts) ==
    IF percepts = {} THEN "-"
    ELSE IF "Breeze" \in percepts /\ "Stench" \in percepts THEN "T"
    ELSE IF "Breeze" \in percepts THEN "B"
    ELSE IF "Stench" \in percepts THEN "S"
    ELSE IF "Glitter" \in percepts THEN "G"
    ELSE "-"

\* the percept letter update_knowledge_base derives from the percept list
PerceptType(percepts) ==
    IF percepts = {} \/ "Glitter" \in percepts
    THEN (IF percepts = {} THEN "-" ELSE "G")
    ELSE IF "Breeze" \in percepts /\ "Stench" \in percepts THEN "T"
    ELSE IF "Breeze" \in percepts THEN "B"
    ELSE IF "Stench" \in percepts THEN "S"
    ELSE "-"

\* the case dispatch of update_knowledge_base (lines 97-122)
ProcessPercept(kb, position, percept) ==
    CASE percept = "-" ->
            MarkAdjacentSafe(
                AddFactTo(AddFactTo(AddFactTo(kb, Fact("NoBreeze", position)),
                                    Fact("NoStench", position)),
                          Fact("Safe", position)),
                position)
      [] percept = "B" ->
            ProcessBreeze(
                AddFactTo(AddFactTo(kb, Fact("Breeze", position)),
                          Fact("NoStench", position)),
                position)
      [] percept = "S" ->
            ProcessStench(
                AddFactTo(AddFactTo(kb, Fact("Stench", position)),
                          Fact("NoBreeze", position)),
                position)
      [] percept = "T" ->
            ProcessBreezeAndStench(
                AddFactTo(AddFactTo(kb, Fact("Breeze", position)),
                          Fact("Stench", position)),
                position)
      [] percept = "G" ->
            [AddFactTo(AddFactTo(kb, Fact("Glitter", position)), Fact("Gold", position))
                EXCEPT !.gold = position, !.grid[position] = "99"]
      [] OTHER -> kb

\* the tail of update_knowledge_base without the Visited fact of the cell
FinishUpdateUnvisited(kb, position) ==
    UpdatePlayingGridFromKb(ForwardChain([kb EXCEPT !.grid[position] = "1"]))

\* the tail of update_knowledge_base (lines 124-128)
FinishUpdate(kb, position) ==
    UpdatePlayingGridFromKb(
        ForwardChain(
            [AddFactTo(kb, Fact("Visited", position)) EXCEPT !.grid[position] = "1"]))

\* update_knowledge_base
UpdateKb(kb, position, percepts) ==
    FinishUpdate(ProcessPercept(kb, position, PerceptType(percepts)), position)

\* set_gold_found
SetGoldFoundKb(kb, position) ==
    AddFactTo([kb EXCEPT !.grid[position] = "99", !.gold = position],
              Fact("Gold", position))

\* has_gold_location
HasGoldLocation(kb) == kb.gold # None

(***************************************************************************)
(* The decision policy (InferenceEngine).  The store is only read.         *)
(* A search result is [kind, cell]: kind "cell" with the chosen cell,      *)
(* "none" for Python's None, "error" for a raised exception.  An operator  *)
(* whose code draws with random.choice yields the set of its results.      *)
(***************************************************************************)

NoCell == <<-1, -1>>
Chosen(c) == [kind |-> "cell", cell |-> c]
NoResult == [kind |-> "none", cell |-> NoCell]
Raised == [kind |-> "error", cell |-> NoCell]

\* self.max_history_length
MaxHistoryLength == 8

Max2(a, b) == IF a >= b THEN a ELSE b

\* the score ranking the cells of confidence 1.0 above every other cell
CalculateSafetyScoreRiskFirst(kb, p) ==
    IF ~InGrid(p) THEN -1000
    ELSE LET maxThreat == Max2(GetConfidence(kb, p, "pit"), GetConfidence(kb, p, "wumpus"))
             visited   == Query(kb, Fact("Visited", p))
         IN  CASE maxThreat = 0  -> (IF visited THEN 800 ELSE 1000)
               [] maxThreat = 2  -> (IF visited THEN 180 ELSE 200)
               [] maxThreat = 5  -> (IF visited THEN 30 ELSE 50)
               [] maxThreat = 10 -> (IF visited THEN 1990 ELSE 2000)
               [] OTHER -> Max2(0, 100 - maxThreat * 10)

\* _calculate_safety_score
CalculateSafetyScore(kb, p) ==
    IF ~InGrid(p) THEN -1000
    ELSE LET maxThreat == Max2(GetConfidence(kb, p, "pit"), GetConfidence(kb, p, "wumpus"))
             visited   == Query(kb, Fact("Visited", p))
         IN  CASE maxThreat = 0  -> (IF visited THEN 800 ELSE 1000)
               [] maxThreat = 2  -> (IF visited THEN 180 ELSE 200)
               [] maxThreat = 5  -> (IF visited THEN 30 ELSE 50)
               [] maxThreat = 10 -> (IF visited THEN -10 ELSE 0)
               [] OTHER -> Max2(0, 100 - maxThreat * 10)

\* recent_positions.count(position) over a list
CountIn(s, p) == Cardinality({i \in 1 .. Len(s) : s[i] = p})

\* the loop test without the minimum history length
WouldCreateLoopAnyLength(hist, p) ==
    LET first == IF Len(hist) > 4 THEN Len(hist) - 3 ELSE 1
    IN  CountIn(SubSeq(hist, first, Len(hist)), p) >= 2

\* _would_create_loop
WouldCreateLoop(hist, p) ==
    IF Len(hist) < 4 THEN FALSE
    ELSE IF CountIn(SubSeq(hist, Len(hist) - 3, Len(hist)), p) >= 2 THEN TRUE
    ELSE IF Len(hist) >= 6
            /\ hist[Len(hist) - 1] = p
            /\ hist[Len(hist) - 3] = p
            /\ hist[Len(hist) - 5] = p
         THEN TRUE
         ELSE FALSE

\* the value standing for float('inf'): larger than any distance in the grid
Infinity == 2 * GridSize * GridSize

RECURSIVE BfsLevel(_, _, _, _)
\* the queue of _distance_to_nearest_unvisited, one distance level at a time
BfsLevel(kb, frontier, seen, dist) ==
    IF frontier = {} THEN Infinity
    ELSE IF \E q \in frontier : ~Query(kb, Fact("Visited", q)) THEN dist
    ELSE LET next == UNION {SeqToSet(GetAdjacentCells(q)) : q \in frontier} \ seen
         IN  BfsLevel(kb, next, seen \cup next, dist + 1)

\* _distance_to_nearest_unvisited
DistanceToNearestUnvisited(kb, p) == BfsLevel(kb, {p}, {p}, 0)

\* _select_best_exploration_cell.  With two or more candidates the loop calls
\* self._calculate_exploration_score, which the class does not define (its body
\* sits after the return of _select_best_backtrack_cell): AttributeError.
SelectBestExplorationCell(kb, candidates) ==
    IF candidates = <<>> THEN NoResult
    ELSE IF Len(candidates) = 1 THEN Chosen(candidates[1])
    ELSE Raised

\* the backtrack selection returning the candidate farthest from the unvisited cells
SelectBestBacktrackCellFarthest(kb, candidates) ==
    LET Far(c) == \A d \in SeqToSet(candidates) :
                     DistanceToNearestUnvisited(kb, d) <= DistanceToNearestUnvisited(kb, c)
    IN  IF candidates = <<>> THEN NoResult
        ELSE Chosen(CHOOSE c \in SeqToSet(candidates) : Far(c))

RECURSIVE BacktrackLoop(_, _, _, _, _)
\* the for loop of _select_best_backtrack_cell: best is "None" or a cell
BacktrackLoop(kb, candidates, i, best, bestDistance) ==
    IF i > Len(candidates) THEN best
    ELSE LET distance == DistanceToNearestUnvisited(kb, candidates[i])
         IN  IF distance < bestDistance
             THEN BacktrackLoop(kb, candidates, i + 1, <<candidates[i]>>, distance)
             ELSE BacktrackLoop(kb, candidates, i + 1, best, bestDistance)

\* _select_best_backtrack_cell
SelectBestBacktrackCell(kb, candidates) ==
    IF candidates = <<>> THEN NoResult
    ELSE IF Len(candidates) = 1 THEN Chosen(candidates[1])
    ELSE LET best == BacktrackLoop(kb, candidates, 1, <<>>, Infinity)
         IN  IF best # <<>> THEN Chosen(best[1]) ELSE Chosen(candidates[1])

\* _select_best_cell_from_group: the set of cells it can return
SelectBestCellFromGroup(kb, candidates, safetyScore) ==
    LET unvisited == UnvisitedCells(kb, candidates)
    IN  IF candidates = <<>> THEN {NoResult}
        ELSE IF Len(candidates) = 1 THEN {Chosen(candidates[1])}
        ELSE IF safetyScore >= 800
             THEN IF unvisited # <<>>
                  THEN {SelectBestExplorationCell(kb, unvisited)}
                  ELSE {SelectBestBacktrackCell(kb, candidates)}
             ELSE IF unvisited # <<>>
                  THEN {SelectBestExplorationCell(kb, unvisited)}
                  ELSE {Chosen(c) : c \in SeqToSet(candidates)}

\* the cells of adj with the given score, in list order (the sort is stable)
CellsWithScore(kb, adj, score) ==
    LET Test(q) == CalculateSafetyScore(kb, q) = score
    IN  SelectSeq(adj, Test)

\* the loop filter with its test inverted: keeps the flagged cells
NonLoopInverted(hist, cells) ==
    LET Test(q) == WouldCreateLoop(hist, q)
    IN  SelectSeq(cells, Test)

\* the cells of a list that _would_create_loop does not flag
NonLoop(hist, cells) ==
    LET Test(q) == ~WouldCreateLoop(hist, q)
    IN  SelectSeq(cells, Test)

\* the sort of the scores in ascending order: the first score is the lowest
MinOf(S) == CHOOSE m \in S : \A n \in S : m <= n

\* cell_options.sort(reverse=True)[0][1]: the highest score of a set of scores
MaxOf(S) == CHOOSE m \in S : \A n \in S : n <= m

\* the search offering the loop-flagged cells of the best group as soon as the
\* best group has no unflagged cell, without looking at the second group
ChooseNextMoveOneGroup(kb, hist, currentPos) ==
    LET adj          == GetAdjacentCells(currentPos)
        scores       == {CalculateSafetyScore(kb, adj[i]) : i \in 1 .. Len(adj)}
        safestScore  == IF adj # <<>> THEN MaxOf(scores) ELSE 0
        safestCells  == CellsWithScore(kb, adj, safestScore)
        nonLoopSafest == NonLoop(hist, safestCells)
    IN  IF nonLoopSafest # <<>>
        THEN SelectBestCellFromGroup(kb, nonLoopSafest, safestScore)
        ELSE IF safestCells # <<>>
        THEN SelectBestCellFromGroup(kb, safestCells, safestScore)
        ELSE IF adj # <<>>
        THEN {Chosen(c) : c \in SeqToSet(adj)}
        ELSE {NoResult}

\* _choose_next_move_with_efficient_search
ChooseNextMove(kb, hist, currentPos) ==
    LET adj          == GetAdjacentCells(currentPos)
        scores       == {CalculateSafetyScore(kb, adj[i]) : i \in 1 .. Len(adj)}
        safestScore  == IF adj # <<>> THEN MaxOf(scores) ELSE 0
        safestCells  == CellsWithScore(kb, adj, safestScore)
        nonLoopSafest == NonLoop(hist, safestCells)
        lower        == {s \in scores : s < safestScore}
        secondCells  == IF Len(adj) > 1 /\ lower # {}
                        THEN CellsWithScore(kb, adj, MaxOf(lower))
                        ELSE <<>>
        nonLoopSecond == NonLoop(hist, secondCells)
    IN  IF nonLoopSafest # <<>>
        THEN SelectBestCellFromGroup(kb, nonLoopSafest, safestScore)
        ELSE IF nonLoopSecond # <<>>
        THEN SelectBestCellFromGroup(kb, nonLoopSecond, MaxOf(lower))
        ELSE IF safestCells # <<>>
        THEN SelectBestCellFromGroup(kb, safestCells, safestScore)
        ELSE IF adj # <<>>
        THEN {Chosen(c) : c \in SeqToSet(adj)}
        ELSE {NoResult}

\* _is_safe_to_move accepting visited cells only
IsSafeToMoveVisitedOnly(kb, p) ==
    IF ~InGrid(p) THEN FALSE ELSE Query(kb, Fact("Visited", p))

\* _is_safe_to_move
IsSafeToMove(kb, p) ==
    IF ~InGrid(p) THEN FALSE
    ELSE IF Query(kb, Fact("Visited", p)) THEN TRUE
    ELSE GetConfidence(kb, p, "pit") = 0 /\ GetConfidence(kb, p, "wumpus") = 0

\* _find_path_to_exit: an action, or None
FindPathToExit(kb, currentPos) ==
    LET x == currentPos[1]
        y == currentPos[2]
    IN  IF x > 0 /\ IsSafeToMove(kb, <<x - 1, y>>) THEN "MOVE_LEFT"
        ELSE IF x < 0 /\ IsSafeToMove(kb, <<x + 1, y>>) THEN "MOVE_RIGHT"
        ELSE IF y > 0 /\ IsSafeToMove(kb, <<x, y - 1>>) THEN "MOVE_UP"
        ELSE IF y < 0 /\ IsSafeToMove(kb, <<x, y + 1>>) THEN "MOVE_DOWN"
        ELSE None

\* _get_direction naming the vertical directions the other way round
GetDirectionFlipped(currentPos, nextPos) ==
    LET x  == currentPos[1]
        y  == currentPos[2]
        nx == nextPos[1]
        ny == nextPos[2]
    IN  IF nx = x /\ ny = y - 1 THEN "DOWN"
        ELSE IF nx = x /\ ny = y + 1 THEN "UP"
        ELSE IF nx = x - 1 /\ ny = y THEN "LEFT"
        ELSE IF nx = x + 1 /\ ny = y THEN "RIGHT"
        ELSE ""

\* _get_direction
GetDirection(currentPos, nextPos) ==
    LET x  == currentPos[1]
        y  == currentPos[2]
        nx == nextPos[1]
        ny == nextPos[2]
    IN  IF nx = x /\ ny = y - 1 THEN "UP"
        ELSE IF nx = x /\ ny = y + 1 THEN "DOWN"
        ELSE IF nx = x - 1 /\ ny = y THEN "LEFT"
        ELSE IF nx = x + 1 /\ ny = y THEN "RIGHT"
        ELSE ""

MoveAction(direction) ==
    CASE direction = "UP"    -> "MOVE_UP"
      [] direction = "DOWN"  -> "MOVE_DOWN"
      [] direction = "LEFT"  -> "MOVE_LEFT"
      [] direction = "RIGHT" -> "MOVE_RIGHT"
      [] OTHER -> "MOVE_"

\* action.split("_")[1] in execute_agent_step
DirectionOf(action) ==
    CASE action = "MOVE_UP"    -> "UP"
      [] action = "MOVE_DOWN"  -> "DOWN"
      [] action = "MOVE_LEFT"  -> "LEFT"
      [] action = "MOVE_RIGHT" -> "RIGHT"
      [] OTHER -> ""

Min2(a, b) == IF a <= b THEN a ELSE b

\* get_new_position (main.py)
GetNewPosition(p, direction) ==
    CASE direction = "UP"    -> <<p[1], Max2(0, p[2] - 1)>>
      [] direction = "DOWN"  -> <<p[1], Min2(GridSize - 1, p[2] + 1)>>
      [] direction = "LEFT"  -> <<Max2(0, p[1] - 1), p[2]>>
      [] direction = "RIGHT" -> <<Min2(GridSize - 1, p[1] + 1), p[2]>>
      [] OTHER -> p

\* the history buffer discarding the newest entry when it is full
PushHistoryDropNewest(hist, currentPos) ==
    LET h == Append(hist, currentPos)
    IN  IF Len(h) > MaxHistoryLength THEN SubSeq(h, 1, MaxHistoryLength) ELSE h

\* move_history.append(current_pos), dropping the oldest entry beyond the capacity
PushHistory(hist, currentPos) ==
    LET h == Append(hist, currentPos)
    IN  IF Len(h) > MaxHistoryLength THEN Tail(h) ELSE h

\* lines 31-66 of determine_next_action: the exploration search and its result
ExploreOutcome(hist, currentPos, r) ==
    CASE r.kind = "error" ->
            [action |-> "ERROR", history |-> hist, via |-> "explore", cell |-> NoCell]
      [] r.kind = "none" ->
            [action |-> "STAY", history |-> hist, via |-> "explore", cell |-> NoCell]
      [] OTHER ->
            [action |-> MoveAction(GetDirection(currentPos, r.cell)),
             history |-> PushHistory(hist, currentPos),
             via |-> "explore", cell |-> r.cell]

\* determine_next_action testing the exit step before the Glitter percept
DetermineNextActionExitFirst(kb, hist, currentPos, percepts) ==
    LET exit == IF HasGoldLocation(kb) /\ currentPos # <<0, 0>>
                THEN FindPathToExit(kb, currentPos)
                ELSE None
    IN  IF exit # None
        THEN {[action |-> exit, history |-> hist, via |-> "exit", cell |-> NoCell]}
        ELSE IF "Glitter" \in percepts
        THEN {[action |-> "GRAB", history |-> hist, via |-> "grab", cell |-> NoCell]}
        ELSE {ExploreOutcome(hist, currentPos, r) : r \in ChooseNextMove(kb, hist, currentPos)}

\* determine_next_action: the set of its outcomes [action, history, via, cell],
\* history being move_history after the call
DetermineNextAction(kb, hist, currentPos, percepts) ==
    LET exit == IF HasGoldLocation(kb) /\ currentPos # <<0, 0>>
                THEN FindPathToExit(kb, currentPos)
                ELSE None
    IN  IF "Glitter" \in percepts
        THEN {[action |-> "GRAB", history |-> hist, via |-> "grab", cell |-> NoCell]}
        ELSE IF exit # None
        THEN {[action |-> exit, history |-> hist, via |-> "exit", cell |-> NoCell]}
        ELSE {ExploreOutcome(hist, currentPos, r) : r \in ChooseNextMove(kb, hist, currentPos)}

(***************************************************************************)
(* The state machine: one action per public operation, called as the step  *)
(* loop of main.py calls them (update, then decide, at the agent's cell;   *)
(* the agent then stands on the same cell or on a neighbour).              *)
(***************************************************************************)

\* the store as a value
Kb == [facts |-> facts, conf |-> cell_confidence, grid |-> playing_grid, gold |-> gold_cell]

SetKb(kb) ==
    /\ facts' = kb.facts
    /\ cell_confidence' = kb.conf
    /\ playing_grid' = kb.grid
    /\ gold_cell' = kb.gold

\* the percept lists get_percepts can return
PerceptInputs == SUBSET {"Breeze", "Stench", "Glitter"}

\* the facts add_fact is called with from outside the store
FactInputs ==
    {Fact(pred, p) : pred \in {"NoPit", "NoWumpus", "NoBreeze"}, p \in {<<1, 0>>, <<1, 1>>}}

\* the positions the agent can stand on at the next update
NextPositions == {pos} \cup SeqToSet(GetAdjacentCells(pos))

Call(op, p, percepts) ==
    [op |-> op, pos |-> p, percepts |-> percepts, action |-> None, via |-> None,
     cell |-> NoCell, hist |-> <<>>]

\* WumpusEnvironment.__init__: no pit, no wumpus, no gold
EmptyWorld == [pits |-> {}, wumpus |-> {}, gold |-> None]

\* get_percepts of the environment w at position p (every wumpus is alive: main.py
\* never shoots)
GetPercepts(w, p) ==
    LET adj == SeqToSet(GetAdjacentCells(p))
    IN  (IF p = w.gold THEN {"Glitter"} ELSE {})
        \cup (IF adj \cap w.pits # {} THEN {"Breeze"} ELSE {})
        \cup (IF adj \cap w.wumpus # {} THEN {"Stench"} ELSE {})

\* is_dangerous_cell
IsDangerousCell(w, p) == p \in w.pits \cup w.wumpus

\* the fields of GameState set by reset
NewGame ==
    [over |-> FALSE, alive |-> TRUE, has_gold |-> FALSE, visited |-> {<<0, 0>>},
     status |-> "playing"]

\* the coroutines that step the episode: two run_ai_agent tasks (from two
\* /api/start requests) and the handler of /api/step
LoopTasks == {"loop1", "loop2"}
Tasks == LoopTasks \cup {"step"}

\* a coroutine that is not running: no percepts read, no action decided
IdleTask == [pc |-> "idle", percepts |-> {}, action |-> None, store |-> None]

\* PropositionalKB.__init__, InferenceEngine.__init__ and GameState.reset, on the
\* environment w
InitIn(w) ==
    /\ facts = {Fact("Safe", <<0, 0>>), Fact("Visited", <<0, 0>>)}
    /\ cell_confidence = [q \in {} |-> [pit |-> 0, wumpus |-> 0]]
    /\ playing_grid = [p \in Pos |-> IF p = <<0, 0>> THEN "1" ELSE "0"]
    /\ gold_cell = None
    /\ move_history = <<>>
    /\ pos = <<0, 0>>
    /\ last = Call("init", <<0, 0>>, {})
    /\ calls = 0
    /\ world = w
    /\ game = NewGame
    /\ tasks = [t \in Tasks |-> IdleTask]
    /\ running = None

\* PropositionalKB.__init__, InferenceEngine.__init__ and GameState.reset
Init == InitIn(EmptyWorld)

\* knowledge_base.update_knowledge_base(p, percepts)
UpdateKnowledgeBase(p, percepts) ==
    /\ SetKb(UpdateKb(Kb, p, percepts))
    /\ pos' = p
    /\ last' = Call("update", p, percepts)
    /\ calls' = calls + 1
    /\ UNCHANGED move_history
    /\ UNCHANGED driver

\* determine_next_action whose reads of a confidence create the missing entry
\* of every neighbour they look at
DetermineNextActionCallCreating(p, percepts) ==
    /\ \E o \in DetermineNextAction(Kb, move_history, p, percepts) :
          /\ move_history' = o.history
          /\ last' = [op |-> "decide", pos |-> p, percepts |-> percepts,
                      action |-> o.action, via |-> o.via, cell |-> o.cell,
                      hist |-> move_history]
    /\ pos' = p
    /\ calls' = calls + 1
    /\ cell_confidence' =
          [q \in DOMAIN cell_confidence \cup SeqToSet(GetAdjacentCells(p)) |->
              IF q \in DOMAIN cell_confidence THEN cell_confidence[q]
              ELSE [pit |-> 0, wumpus |-> 0]]
    /\ UNCHANGED <<facts, playing_grid, gold_cell>>
    /\ UNCHANGED driver

\* inference_engine.determine_next_action(p, percepts, grid_size)
DetermineNextActionCall(p, percepts) ==
    /\ \E o \in DetermineNextAction(Kb, move_history, p, percepts) :
          /\ move_history' = o.history
          /\ last' = [op |-> "decide", pos |-> p, percepts |-> percepts,
                      action |-> o.action, via |-> o.via, cell |-> o.cell,
                      hist |-> move_history]
    /\ pos' = p
    /\ calls' = calls + 1
    /\ UNCHANGED <<facts, cell_confidence, playing_grid, gold_cell>>
    /\ UNCHANGED driver

\* knowledge_base.set_gold_found(pos)
SetGoldFound ==
    /\ SetKb(SetGoldFoundKb(Kb, pos))
    /\ last' = Call("set_gold_found", pos, {})
    /\ calls' = calls + 1
    /\ UNCHANGED <<move_history, pos>>
    /\ UNCHANGED driver

\* knowledge_base.add_fact(f)
AddFact(f) ==
    /\ SetKb(AddFactTo(Kb, f))
    /\ last' = Call("add_fact", pos, {})
    /\ calls' = calls + 1
    /\ UNCHANGED <<move_history, pos>>
    /\ UNCHANGED driver

\* knowledge_base.forward_chain()
ForwardChainCall ==
    /\ SetKb(ForwardChain(Kb))
    /\ last' = Call("forward_chain", pos, {})
    /\ calls' = calls + 1
    /\ UNCHANGED <<move_history, pos>>
    /\ UNCHANGED driver

\* The step loop's calls: update and decide at the agent's cell, with any percepts.
Next ==
    \/ /\ calls < MaxCalls
       /\ \E p \in NextPositions, percepts \in PerceptInputs : UpdateKnowledgeBase(p, percepts)
    \/ /\ calls < MaxCalls
       /\ \E percepts \in PerceptInputs : DetermineNextActionCall(pos, percepts)
    \/ /\ calls < MaxCalls
       /\ SetGoldFound

Spec == Init /\ [][Next]_vars

\* The store alone, with every operation that writes the fact set.
NextStore ==
    \/ /\ calls < MaxCalls
       /\ \E p \in NextPositions, percepts \in PerceptInputs : UpdateKnowledgeBase(p, percepts)
    \/ /\ calls < MaxCalls
       /\ \E f \in FactInputs : AddFact(f)
    \/ /\ calls < MaxCalls
       /\ ForwardChainCall
    \/ /\ calls < MaxCalls
       /\ SetGoldFound

SpecStore == Init /\ [][NextStore]_vars

\* The policy queried repeatedly on a store set up by a few updates: the first
\* MaxSetupCalls calls may be updates, all calls may be decisions.
PolicyPercepts == {{}, {"Breeze"}}

NextPolicy ==
    \/ /\ calls < MaxSetupCalls
       /\ \E p \in NextPositions, percepts \in PolicyPercepts : UpdateKnowledgeBase(p, percepts)
    \/ /\ calls < MaxPolicyCalls
       /\ \E p \in NextPositions : DetermineNextActionCall(p, {})
    \/ /\ calls < MaxPolicyCalls
       /\ SetGoldFound

SpecPolicy == Init /\ [][NextPolicy]_vars

\* The store under long runs of updates: the first MaxWideCalls updates carry any
\* percepts, the later ones no signal or a breeze.
HazardPercepts == {{}, {"Breeze"}}

NextHazards ==
    \/ /\ calls < MaxWideCalls
       /\ \E p \in NextPositions, percepts \in PerceptInputs : UpdateKnowledgeBase(p, percepts)
    \/ /\ MaxWideCalls <= calls /\ calls < MaxHazardCalls
       /\ \E p \in NextPositions, percepts \in HazardPercepts : UpdateKnowledgeBase(p, percepts)

SpecHazards == Init /\ [][NextHazards]_vars

\* The policy queried once, at any cell, on a store built by a run of updates long
\* enough to hold every confidence level.
NextTiers ==
    \/ /\ calls < MaxTierUpdates
       /\ \E p \in NextPositions, percepts \in HazardPercepts : UpdateKnowledgeBase(p, percepts)
    \/ /\ MaxTierUpdates <= calls /\ calls < MaxTierCalls
       /\ \E p \in Pos : DetermineNextActionCall(p, {})

SpecTiers == Init /\ [][NextTiers]_vars

\* The policy queried at any cell of the grid, in any order, on a store set up by
\* MaxSetupCalls updates: the move history is any sequence of cells.
NextSearch ==
    \/ /\ calls < MaxSetupCalls
       /\ \E p \in NextPositions, percepts \in PolicyPercepts : UpdateKnowledgeBase(p, percepts)
    \/ /\ MaxSetupCalls <= calls /\ calls < MaxSearchCalls
       /\ \E p \in Pos : DetermineNextActionCall(p, {})

SpecSearch == Init /\ [][NextSearch]_vars

\* The agent walking over cells it has visited, deciding at each: runs long
\* enough to fill the move history and push further entries into it.
NextHistory ==
    \/ /\ calls < MaxSetupCalls
       /\ \E p \in NextPositions : UpdateKnowledgeBase(p, {})
    \/ /\ MaxSetupCalls <= calls /\ calls < MaxHistoryCalls
       /\ \E p \in NextPositions :
             /\ Fact("Visited", p) \in facts
             /\ DetermineNextActionCall(p, {})

SpecHistory == Init /\ [][NextHistory]_vars

\* The store under runs of updates that carry no signal, a breeze or both
\* danger signals: long enough to confirm a pit and then perceive both signals
\* beside it.
DualPercepts == {{}, {"Breeze"}, {"Breeze", "Stench"}}

NextDual ==
    /\ calls < MaxDualCalls
    /\ \E p \in NextPositions, percepts \in DualPercepts : UpdateKnowledgeBase(p, percepts)

SpecDual == Init /\ [][NextDual]_vars

\* The agent walking over a grid without hazards, up to visiting every cell, and
\* deciding at its cell.
NextBacktrack ==
    \/ /\ calls < MaxBacktrackUpdates
       /\ \E p \in NextPositions : UpdateKnowledgeBase(p, {})
    \/ /\ calls < MaxBacktrackCalls
       /\ DetermineNextActionCall(pos, {})

SpecBacktrack == Init /\ [][NextBacktrack]_vars

(***************************************************************************)
(* The driver of main.py on a fixed environment.  The handlers and the     *)
(* run_ai_agent tasks are coroutines of one asyncio event loop: a          *)
(* coroutine that holds the loop keeps it until it executes an await that  *)
(* suspends it or until it ends.  pc names the next statement of a         *)
(* coroutine.                                                              *)
(***************************************************************************)

\* Largest numbers of pits and of wumpuses in an environment of the driver.
MaxDriverPits == 1
MaxDriverWumpus == 1

\* the environments with at most maxPits pits and maxWumpus wumpuses on distinct
\* cells other than the start, and the gold on a cell of golds without hazard
Worlds(maxPits, maxWumpus, golds) ==
    {w \in [pits : {S \in SUBSET (Pos \ {<<0, 0>>}) : Cardinality(S) <= maxPits},
            wumpus : {S \in SUBSET (Pos \ {<<0, 0>>}) : Cardinality(S) <= maxWumpus},
            gold : golds] :
        w.pits \cap w.wumpus = {} /\ ~IsDangerousCell(w, w.gold)}

\* the environments of the driver: the gold on the start cell or on the far corner
DriverWorlds ==
    Worlds(MaxDriverPits, MaxDriverWumpus, {<<0, 0>>, <<GridSize - 1, GridSize - 1>>})

\* lines 205-234 of execute_agent_step: the action applied to the game, the
\* store and the agent's position
ApplyAction(kb, g, p, w, action, percepts) ==
    LET grab  == ~g.has_gold /\ action = "GRAB" /\ "Glitter" \in percepts
        g1    == IF grab
                 THEN [g EXCEPT !.has_gold = TRUE, !.over = TRUE, !.status = "won"]
                 ELSE g
        kb1   == IF grab THEN SetGoldFoundKb(kb, p) ELSE kb
        moves == action \in {"MOVE_UP", "MOVE_DOWN", "MOVE_LEFT", "MOVE_RIGHT", "MOVE_"}
        p2    == IF moves THEN GetNewPosition(p, DirectionOf(action)) ELSE p
        g2    == IF moves
                 THEN IF IsDangerousCell(w, p2)
                      THEN [g1 EXCEPT !.visited = @ \cup {p2}, !.alive = FALSE,
                                      !.over = TRUE, !.status = "lost"]
                      ELSE [g1 EXCEPT !.visited = @ \cup {p2}]
                 ELSE g1
        g3    == IF g2.has_gold /\ p2 = <<0, 0>>
                 THEN [g2 EXCEPT !.over = TRUE, !.status = "won"]
                 ELSE IF Cardinality(g2.visited) = GridSize * GridSize
                 THEN [g2 EXCEPT !.over = TRUE,
                                 !.status = IF @ = "playing" THEN "lost" ELSE @]
                 ELSE g2
    IN  [kb |-> kb1, game |-> g3, pos |-> p2]

\* execute_agent_step awaiting after its update_knowledge_base as well
AwaitPointsAfterUpdate == {"update", "broadcast_state", "broadcast_action", "sleep"}

\* the statements at which a coroutine is suspended: the two broadcasts of
\* execute_agent_step and the sleep of run_ai_agent
AwaitPoints == {"broadcast_state", "broadcast_action", "sleep"}

\* the coroutine t may run: the event loop is free or t holds it
Runnable(t) == running \in {None, t}

\* the pc of a coroutine that has ended
Ended == {"idle", "done", "failed"}

\* t has executed the statement at its pc and goes to pc next, its local
\* variables being percepts, action and store
Goto(t, next, percepts, action, store) ==
    /\ tasks' = [tasks EXCEPT ![t] = [pc |-> next, percepts |-> percepts,
                                      action |-> action, store |-> store]]
    /\ running' = IF tasks[t].pc \in AwaitPoints \/ next \in Ended THEN None ELSE t

\* the pc after the end of execute_agent_step: the sleep of the loop, or the
\* return of the /api/step handler
AfterStep(t) == IF t \in LoopTasks THEN "sleep" ELSE "idle"

\* the pc after an exception in execute_agent_step: the task is dead, the
\* handler answers with an error
AfterException(t) == IF t \in LoopTasks THEN "failed" ELSE "idle"

\* POST /api/start: asyncio.create_task(run_ai_agent())
StartGame(t) ==
    /\ t \in LoopTasks
    /\ tasks[t].pc = "idle"
    /\ running = None
    /\ tasks' = [tasks EXCEPT ![t].pc = "loop"]
    /\ calls' = calls + 1
    /\ last' = Call("start", pos, {})
    /\ UNCHANGED <<facts, cell_confidence, playing_grid, gold_cell, move_history, pos,
                   world, game, running>>

\* POST /api/step: the handler up to its call of execute_agent_step
StepGame(t) ==
    /\ t = "step"
    /\ tasks[t].pc = "idle"
    /\ running = None
    /\ ~game.over
    /\ Goto(t, "enter", {}, None, None)
    /\ calls' = calls + 1
    /\ last' = Call("step", pos, {})
    /\ UNCHANGED <<facts, cell_confidence, playing_grid, gold_cell, move_history, pos,
                   world, game>>

\* run_ai_agent: the test of the while loop
LoopCheck(t) ==
    /\ tasks[t].pc = "loop"
    /\ Runnable(t)
    /\ Goto(t, IF ~game.over /\ game.alive THEN "enter" ELSE "done", {}, None, None)
    /\ UNCHANGED <<facts, cell_confidence, playing_grid, gold_cell, move_history, pos,
                   last, calls, world, game>>

\* execute_agent_step, lines 191-194: the early return and get_percepts
EnterStep(t) ==
    /\ tasks[t].pc = "enter"
    /\ Runnable(t)
    /\ IF game.over \/ ~game.alive
       THEN Goto(t, AfterStep(t), {}, None, None)
       ELSE Goto(t, "update", GetPercepts(world, pos), None, None)
    /\ UNCHANGED <<facts, cell_confidence, playing_grid, gold_cell, move_history, pos,
                   last, calls, world, game>>

\* execute_agent_step, line 196: update_knowledge_base(agent_pos, percepts)
StepUpdate(t) ==
    /\ tasks[t].pc = "update"
    /\ Runnable(t)
    /\ LET kb == UpdateKb(Kb, pos, tasks[t].percepts)
       IN  /\ SetKb(kb)
           /\ Goto(t, "decide", tasks[t].percepts, None, kb)
    /\ last' = Call("update", pos, tasks[t].percepts)
    /\ UNCHANGED <<move_history, pos, calls, world, game>>

\* execute_agent_step, lines 198-202: determine_next_action(agent_pos, percepts)
StepDecide(t) ==
    /\ tasks[t].pc = "decide"
    /\ Runnable(t)
    /\ \E o \in DetermineNextAction(Kb, move_history, pos, tasks[t].percepts) :
          /\ move_history' = o.history
          /\ last' = [op |-> "decide", pos |-> pos, percepts |-> tasks[t].percepts,
                      action |-> o.action, via |-> o.via, cell |-> o.cell,
                      hist |-> move_history]
          /\ IF o.action = "ERROR"
             THEN Goto(t, AfterException(t), {}, None, None)
             ELSE Goto(t, "apply", tasks[t].percepts, o.action, tasks[t].store)
    /\ UNCHANGED <<facts, cell_confidence, playing_grid, gold_cell, pos, calls, world, game>>

\* execute_agent_step, lines 204-234: the action applied
StepApply(t) ==
    /\ tasks[t].pc = "apply"
    /\ Runnable(t)
    /\ LET r == ApplyAction(Kb, game, pos, world, tasks[t].action, tasks[t].percepts)
       IN  /\ SetKb(r.kb)
           /\ game' = r.game
           /\ pos' = r.pos
    /\ Goto(t, "broadcast_state", {}, tasks[t].action, None)
    /\ last' = Call("apply", pos, tasks[t].percepts)
    /\ UNCHANGED <<move_history, calls, world>>

\* execute_agent_step, lines 236-245: the two broadcasts
Broadcast(t) ==
    /\ tasks[t].pc \in {"broadcast_state", "broadcast_action"}
    /\ Runnable(t)
    /\ IF tasks[t].pc = "broadcast_state"
       THEN Goto(t, "broadcast_action", {}, tasks[t].action, None)
       ELSE Goto(t, AfterStep(t), {}, None, None)
    /\ UNCHANGED <<facts, cell_confidence, playing_grid, gold_cell, move_history, pos,
                   last, calls, world, game>>

\* run_ai_agent: await asyncio.sleep(1.0)
Sleep(t) ==
    /\ tasks[t].pc = "sleep"
    /\ Runnable(t)
    /\ Goto(t, "loop", {}, None, None)
    /\ UNCHANGED <<facts, cell_confidence, playing_grid, gold_cell, move_history, pos,
                   last, calls, world, game>>

\* Largest number of /api/start and /api/step requests.
MaxRequests == 4

\* the episode on one environment
InitDriver == \E w \in DriverWorlds : InitIn(w)

NextDriver ==
    \E t \in Tasks :
        \/ calls < MaxRequests /\ StartGame(t)
        \/ calls < MaxRequests /\ StepGame(t)
        \/ LoopCheck(t)
        \/ EnterStep(t)
        \/ StepUpdate(t)
        \/ StepDecide(t)
        \/ StepApply(t)
        \/ Broadcast(t)
        \/ Sleep(t)

SpecDriver == InitDriver /\ [][NextDriver]_vars

(***************************************************************************)
(* The store on the walk of a surviving agent through a fixed environment  *)
(* with truthful percepts: the first update is made at the start cell,     *)
(* every later one at the agent's cell or at a neighbour that holds no     *)
(* hazard, with the percepts the environment gives there.                  *)
(***************************************************************************)

\* Largest numbers of pits and of wumpuses in an environment of the walk, and
\* the number of updates of the walk.
MaxWalkPits == 2
MaxWalkWumpus == 1
MaxWalkCalls == 5

\* the environments of the walk: the gold on the start cell or on the far corner
WalkWorlds ==
    Worlds(MaxWalkPits, MaxWalkWumpus, {<<0, 0>>, <<GridSize - 1, GridSize - 1>>})

InitWalk == \E w \in WalkWorlds : InitIn(w)

NextWalk ==
    /\ calls < MaxWalkCalls
    /\ \E p \in NextPositions :
          /\ calls = 0 => p = pos
          /\ ~IsDangerousCell(world, p)
          /\ UpdateKnowledgeBase(p, GetPercepts(world, p))

SpecWalk == InitWalk /\ [][NextWalk]_vars

\* Longer walks in the environments with at most one pit and one wumpus.
MaxConfirmPits == 1
MaxConfirmWumpus == 1
MaxConfirmCalls == 7

ConfirmWorlds ==
    Worlds(MaxConfirmPits, MaxConfirmWumpus, {<<GridSize - 1, GridSize - 1>>})

InitConfirm == \E w \in ConfirmWorlds : InitIn(w)

NextConfirm ==
    /\ calls < MaxConfirmCalls
    /\ \E p \in NextPositions :
          /\ calls = 0 => p = pos
          /\ ~IsDangerousCell(world, p)
          /\ UpdateKnowledgeBase(p, GetPercepts(world, p))

SpecConfirm == InitConfirm /\ [][NextConfirm]_vars

TypeOK ==
    /\ pos \in Pos
    /\ Len(move_history) <= MaxHistoryLength

(***************************************************************************)
(* Properties.                                                             *)
(***************************************************************************)

Visited(p) == Fact("Visited", p) \in facts

Manhattan(p) == p[1] + p[2]

MoveActions == {"MOVE_UP", "MOVE_DOWN", "MOVE_LEFT", "MOVE_RIGHT"}

\* the cell an action leads to from p
TargetOf(p, action) == GetNewPosition(p, DirectionOf(action))

\* C1: every position with Visited(p) in the fact set has confidence 0.0 for pit
\* and for wumpus, in every state reached by updates along the agent's moves.
VisitedFreeze ==
    \A p \in Pos :
        Visited(p) => GetConfidence(Kb, p, "pit") = 0 /\ GetConfidence(Kb, p, "wumpus") = 0

\* C3: determine_next_action returns GRAB, one of the four MOVE actions or STAY,
\* and never ends in an error.
PolicyNeverThrows ==
    last.op = "decide" => last.action \in MoveActions \cup {"GRAB", "STAY"}

\* the neighbours of c that are unvisited and not proven Safe
Suspects(c) ==
    {n \in SeqToSet(GetAdjacentCells(c)) : ~Visited(n) /\ Fact("Safe", n) \notin facts}

\* the threat a single-signal percept list speaks of
ThreatOf(percepts) == IF PerceptType(percepts) = "B" THEN "pit" ELSE "wumpus"

\* C4: a Breeze-only (Stench-only) update at a cell with exactly one neighbour n
\* unvisited and not proven Safe leaves n with confidence 1.0 for pit (wumpus).
SingleSuspectElimination ==
    [][\A n \in Pos :
          (/\ calls' = calls + 1
           /\ last'.op = "update"
           /\ PerceptType(last'.percepts) \in {"B", "S"}
           /\ Suspects(last'.pos) = {n})
          => GetConfidence(Kb', n, ThreatOf(last'.percepts)) = 10]_vars

\* C5: after an update at p with no danger and no treasure signal, p and all its
\* neighbours are Safe facts and have confidence 0.0 for pit and for wumpus.
NoSignalClearsSuspicion ==
    (last.op = "update" /\ PerceptType(last.percepts) = "-")
    => \A q \in {last.pos} \cup SeqToSet(GetAdjacentCells(last.pos)) :
          /\ Fact("Safe", q) \in facts
          /\ GetConfidence(Kb, q, "pit") = 0
          /\ GetConfidence(Kb, q, "wumpus") = 0

\* a neighbour of p nearer to the origin that is visited or free of suspicion
HasSafeStepHome(p) ==
    \E n \in SeqToSet(GetAdjacentCells(p)) :
        /\ Manhattan(n) < Manhattan(p)
        /\ \/ Visited(n)
           \/ GetConfidence(Kb, n, "pit") = 0 /\ GetConfidence(Kb, n, "wumpus") = 0

\* C8: with the treasure located, from every position other than (0,0) that has a
\* neighbour nearer to (0,0) which is visited or has confidence 0.0 for both
\* threats, _find_path_to_exit returns a direction whose target is nearer to
\* (0,0); and the exit step determine_next_action returns is such a direction.
ExitSearchCorrect ==
    /\ \A p \in Pos \ {<<0, 0>>} :
          (HasGoldLocation(Kb) /\ HasSafeStepHome(p))
          => /\ FindPathToExit(Kb, p) \in MoveActions
             /\ Manhattan(TargetOf(p, FindPathToExit(Kb, p))) < Manhattan(p)
    /\ (last.op = "decide" /\ last.via = "exit")
       => Manhattan(TargetOf(last.pos, last.action)) < Manhattan(last.pos)

\* determine_next_action has returned the exit step MOVE_UP: the treasure is
\* located and the cell above is visited or free of suspicion
ExitStepTaken ==
    /\ last.op = "decide"
    /\ last.via = "exit"
    /\ last.action = "MOVE_UP"
    /\ HasSafeStepHome(last.pos)
    /\ gold_cell # None

\* C10: with no treasure signal in the percepts, determine_next_action returns a
\* MOVE to a neighbour (never STAY) on a grid of size at least 2.
AlwaysMovesWithoutGlitter ==
    (last.op = "decide" /\ "Glitter" \notin last.percepts)
    => /\ last.action \in MoveActions
       /\ TargetOf(last.pos, last.action) \in SeqToSet(GetAdjacentCells(last.pos))

Threats == {"pit", "wumpus"}

\* C2: in every state reached by update_knowledge_base calls, get_confidence(p, k)
\* is one of 0.0, 0.2, 0.5, 1.0 for every position p and threat kind k.
ConfidenceDomain ==
    \A p \in Pos, k \in Threats : GetConfidence(Kb, p, k) \in {0, 2, 5, 10}

\* an update has lowered a suspicion to 0.2 next to a confirmed pit, while a
\* suspicion of 0.5 stands elsewhere
AllLevelsReached ==
    /\ last.op = "update"
    /\ \E p \in Pos : GetConfidence(Kb, p, "pit") = LoweredConfidence
    /\ \E p \in Pos : GetConfidence(Kb, p, "pit") = 10
    /\ \E p \in Pos, k \in Threats : GetConfidence(Kb, p, k) = 5

\* C6: no call of add_fact, forward_chain, update_knowledge_base or
\* set_gold_found removes a fact: every fact of a state is in the next state.
FactsAppendOnly == [][facts \subseteq facts']_vars

\* add_fact (NoWumpus(1,1), which no update at the origin derives), set_gold_found
\* and a Breeze update have all written the fact set, which holds what each added
FactsGrownByEachCall ==
    /\ last.op = "update"
    /\ last.percepts = {"Breeze"}
    /\ gold_cell # None
    /\ Fact("Gold", gold_cell) \in facts
    /\ Fact("Glitter", gold_cell) \notin facts
    /\ Fact("NoWumpus", <<1, 1>>) \in facts
    /\ \A p \in Pos \ {<<0, 0>>} : ~Visited(p)
    /\ \E p \in Pos : Fact("PossiblePit", p) \in facts

\* some registered rule has its premise satisfied and its conclusion missing
OpenRule(F) ==
    \E i \in 1 .. Len(Rules) : CanInfer(F, Rules[i]) /\ Rules[i].conclusion \notin F

\* C7: when forward_chain has returned (also at the end of every update) no rule
\* has a satisfied premise with a missing conclusion, and running forward_chain
\* again adds no fact.
ForwardChainFixpoint ==
    last.op \in {"update", "forward_chain"}
    => /\ ~OpenRule(facts)
       /\ ForwardChainFacts(facts) = facts

\* forward_chain has derived Safe(1,1) from the facts NoPit(1,1) and NoWumpus(1,1)
\* given to add_fact, no update having touched the cell
ChainedToSafe ==
    /\ last.op = "forward_chain"
    /\ Fact("Safe", <<1, 1>>) \in facts
    /\ Fact("NoPit", <<1, 1>>) \in facts
    /\ Fact("NoWumpus", <<1, 1>>) \in facts
    /\ \A p \in Pos \ {<<0, 0>>} : ~Visited(p)

\* the risk tier of a cell: its larger confidence, the safe cells being split
\* into unvisited and visited
RiskTier(p) ==
    LET maxThreat == Max2(GetConfidence(Kb, p, "pit"), GetConfidence(Kb, p, "wumpus"))
    IN  <<maxThreat, maxThreat = 0 /\ Visited(p)>>

\* the history before the last call ends a, b, a, b
EndsABAB(h, a, b) ==
    /\ Len(h) >= 4
    /\ h[Len(h) - 3] = a
    /\ h[Len(h) - 2] = b
    /\ h[Len(h) - 1] = a
    /\ h[Len(h)] = b

\* the last call is a decision from A = last.pos on a history ending A, b, A, b,
\* and A has another neighbour of b's risk tier that is not loop-flagged
LoopCase(b) ==
    /\ last.op = "decide"
    /\ b # last.pos
    /\ b \in SeqToSet(GetAdjacentCells(last.pos))
    /\ EndsABAB(last.hist, last.pos, b)
    /\ \E c \in SeqToSet(GetAdjacentCells(last.pos)) \ {b} :
          RiskTier(c) = RiskTier(b) /\ ~WouldCreateLoop(last.hist, c)

SelectsCell(b) == last.action \in MoveActions /\ TargetOf(last.pos, last.action) = b

\* C9 as stated: when the move history ends A, B, A, B and the agent decides from
\* A, determine_next_action does not select B if A has another neighbour of the
\* same risk tier that is not loop-flagged.
LoopExclusion == \A b \in Pos : LoopCase(b) => ~SelectsCell(b)

\* C9 as amended: in the same situation, a decision made by the exploration search
\* (no exit step is returned) does not select B.
LoopExclusionInSearch ==
    \A b \in Pos : (LoopCase(b) /\ last.via = "explore") => ~SelectsCell(b)

\* the exploration search has returned a MOVE in the loop situation, to a cell of
\* B's risk tier
LoopAvoidedBySearch ==
    \E b \in Pos :
        /\ LoopCase(b)
        /\ last.via = "explore"
        /\ last.action \in MoveActions
        /\ RiskTier(last.cell) = RiskTier(b)

\* C11: whenever the percepts given to determine_next_action hold Glitter, the
\* action is GRAB, whatever the position, the other percepts, the known gold
\* location and the move history.
GrabOnGlitter ==
    (last.op = "decide" /\ "Glitter" \in last.percepts)
    => last.action = "GRAB" /\ last.via = "grab" /\ move_history = last.hist

\* GRAB has been returned away from the origin with the treasure already located
\* and a safe step home at hand, under a percept list that also holds a Breeze
GrabbedBeforeExit ==
    /\ last.op = "decide"
    /\ last.action = "GRAB"
    /\ "Breeze" \in last.percepts
    /\ last.pos # <<0, 0>>
    /\ gold_cell # None
    /\ FindPathToExit(Kb, last.pos) # None

\* the larger of the two confidences of a cell
MaxThreat(p) == Max2(GetConfidence(Kb, p, "pit"), GetConfidence(Kb, p, "wumpus"))

\* the tiers in their order: (zero threat, unvisited) > (zero threat, visited) >
\* confidence 0.2 > confidence 0.5 > confidence 1.0
TierRank(p) ==
    CASE MaxThreat(p) = 0  -> (IF Visited(p) THEN 4 ELSE 5)
      [] MaxThreat(p) = 2  -> 3
      [] MaxThreat(p) = 5  -> 2
      [] OTHER -> 1

Neighbours(p) == SeqToSet(GetAdjacentCells(p))

\* the last call is a decision of the exploration search that returned a MOVE
SearchMoved == last.op = "decide" /\ last.via = "explore" /\ last.action \in MoveActions

\* C12: when no neighbour of the position is loop-flagged, the neighbour chosen by
\* the exploration search belongs to the highest tier present among the neighbours.
SafetyTierOrder ==
    (SearchMoved /\ \A n \in Neighbours(last.pos) : ~WouldCreateLoop(last.hist, n))
    => \A n \in Neighbours(last.pos) : TierRank(n) <= TierRank(last.cell)

\* the search has chosen a neighbour of confidence 0.2 ahead of a neighbour of a
\* lower tier, with no neighbour loop-flagged
ChosenAboveLowerTier ==
    /\ SearchMoved
    /\ MaxThreat(last.cell) = LoweredConfidence
    /\ \A n \in Neighbours(last.pos) : ~WouldCreateLoop(last.hist, n)
    /\ \E n \in Neighbours(last.pos) : TierRank(n) < TierRank(last.cell)

\* an update with both danger signals at a cell none of whose neighbours is
\* confirmed (confidence 1.0) for either threat, seen from the state before it
DualSignalStep ==
    /\ calls' = calls + 1
    /\ last'.op = "update"
    /\ PerceptType(last'.percepts) = "T"
    /\ \A n \in Neighbours(last'.pos) :
          GetConfidence(Kb, n, "pit") # 10 /\ GetConfidence(Kb, n, "wumpus") # 10

\* C13 as stated: after an update with Breeze and Stench at a cell with no
\* confirmed neighbour, every unvisited neighbour has confidence 0.5 for pit and
\* 0.5 for wumpus.
DualSignalMarksUnvisited ==
    [][DualSignalStep
       => \A n \in Neighbours(last'.pos) :
             ~Visited(n)
             => /\ GetConfidence(Kb', n, "pit") = 5
                /\ GetConfidence(Kb', n, "wumpus") = 5]_vars

\* C13 amended: the neighbours set to 0.5 for both threats are the unvisited ones
\* that were not Safe facts before the update; an unvisited neighbour already
\* proven Safe keeps its confidences.
DualSignalMarksUnproven ==
    [][DualSignalStep
       => \A n \in Neighbours(last'.pos) :
             /\ (~Visited(n) /\ Fact("Safe", n) \notin facts)
                => /\ GetConfidence(Kb', n, "pit") = 5
                   /\ GetConfidence(Kb', n, "wumpus") = 5
             /\ (~Visited(n) /\ Fact("Safe", n) \in facts)
                => /\ GetConfidence(Kb', n, "pit") = GetConfidence(Kb, n, "pit")
                   /\ GetConfidence(Kb', n, "wumpus") = GetConfidence(Kb, n, "wumpus")]_vars

\* an update with both signals has marked one unvisited neighbour 0.5 / 0.5 and
\* left another unvisited neighbour, proven Safe earlier, at 0.0
DualSignalSkippedSafe ==
    /\ last.op = "update" /\ PerceptType(last.percepts) = "T"
    /\ \A n \in Neighbours(last.pos) :
          GetConfidence(Kb, n, "pit") # 10 /\ GetConfidence(Kb, n, "wumpus") # 10
    /\ \E n, m \in Neighbours(last.pos) :
          /\ ~Visited(n) /\ GetConfidence(Kb, n, "pit") = 5
          /\ GetConfidence(Kb, n, "wumpus") = 5
          /\ ~Visited(m) /\ Fact("Safe", m) \in facts
          /\ GetConfidence(Kb, m, "pit") = 0 /\ GetConfidence(Kb, m, "wumpus") = 0

\* the first case, in the order of precedence, that applies to a cell
ProjectionCase(p) ==
    CASE Visited(p) -> "1"
      [] ~Visited(p) /\ Fact("Safe", p) \in facts -> "0"
      [] OTHER ->
           LET pit    == GetConfidence(Kb, p, "pit")
               wumpus == GetConfidence(Kb, p, "wumpus")
           IN  CASE pit = 10 -> "-4"
                 [] pit # 10 /\ wumpus = 10 -> "-3"
                 [] pit = 5 /\ wumpus = 5 -> "-5"
                 [] pit = 5 /\ wumpus \notin {5, 10} -> "-2"
                 [] pit \notin {5, 10} /\ wumpus = 5 -> "-1"
                 [] pit \notin {5, 10} /\ wumpus \notin {5, 10}
                    /\ (pit = 2 \/ wumpus = 2) -> "-6"
                 [] OTHER -> "0"

\* C14: after every update each cell's status is the highest-precedence case that
\* applies to it, from Visited ('1') down to unknown ('0').
ProjectionPrecedence ==
    last.op = "update" => \A p \in Pos : playing_grid[p] = ProjectionCase(p)

\* after an update the grid shows a double suspicion, a weak suspicion, and a
\* suspected cell that is shown visited because the Visited case comes first
PrecedenceDecided ==
    /\ last.op = "update"
    /\ \E p \in Pos : playing_grid[p] = "-5"
    /\ \E p \in Pos : playing_grid[p] = "-6"
    /\ \E p \in Pos : playing_grid[p] = "1" /\ GetConfidence(Kb, p, "pit") >= LoweredConfidence

\* C15: after every update the updated cell is a Visited fact, and every Visited
\* cell is shown '1' on the playing grid, whatever the confidences recorded for it.
UpdateEndsVisited ==
    last.op = "update"
    => /\ Fact("Visited", last.pos) \in facts
       /\ \A p \in Pos : Visited(p) => playing_grid[p] = "1"

\* an update with the treasure signal has ended with its cell shown visited, and
\* a cell visited earlier, suspected since of a pit, is still shown visited
VisitedShownDespiteThreat ==
    /\ last.op = "update" /\ "Glitter" \in last.percepts
    /\ playing_grid[last.pos] = "1"
    /\ \E p \in Pos \ {last.pos} :
          Visited(p) /\ GetConfidence(Kb, p, "pit") >= 5 /\ playing_grid[p] = "1"

\* C16: after an update with the treasure signal the treasure is located at the
\* updated cell and the playing grid shows the terminal marker '99' there.
TreasureSignalMarked ==
    (last.op = "update" /\ "Glitter" \in last.percepts)
    => /\ gold_cell # None
       /\ gold_cell = last.pos
       /\ playing_grid[last.pos] = "99"

\* C17: once gold_cell holds a position no step changes it.
GoldCellImmutable == [][gold_cell # None => gold_cell' = gold_cell]_vars

\* C18: the move history never holds more than MaxHistoryLength entries; a
\* decision that returns a move of the exploration search appends the deciding
\* position, dropping the oldest entry when the buffer was full and keeping the
\* others in order, and no other call changes the history.
HistoryBounded ==
    [][/\ Len(move_history') <= MaxHistoryLength
       /\ move_history' =
             IF last'.op = "decide" /\ last'.via = "explore" /\ last'.action \in MoveActions
             THEN IF Len(move_history) = MaxHistoryLength
                  THEN Tail(move_history) \o <<pos'>>
                  ELSE Append(move_history, pos')
             ELSE move_history]_vars

\* a decision taken with a full history has pushed its position in and the
\* oldest entry out
OldestDropped ==
    /\ last.op = "decide" /\ last.action \in MoveActions
    /\ Len(last.hist) = MaxHistoryLength
    /\ Len(move_history) = MaxHistoryLength
    /\ move_history[1] # last.hist[1]
    /\ move_history[MaxHistoryLength] = last.pos

\* _would_create_loop, asked for a neighbour at the last decision
LoopFlagged(n) == WouldCreateLoop(last.hist, n)

\* the safety score of a cell in the current store
ScoreOf(n) == CalculateSafetyScore(Kb, n)

\* the last call is a decision that returned a MOVE
DecidedMove == last.op = "decide" /\ last.action \in MoveActions

\* C19 as stated: a decision never moves to a neighbour of strictly higher threat
\* confidence than another neighbour of the position, loop-flagged or not.
NeverHigherThreat ==
    DecidedMove
    => \A n \in Neighbours(last.pos) :
          MaxThreat(TargetOf(last.pos, last.action)) <= MaxThreat(n)

\* C19 amended: the exploration search moves to a neighbour of strictly higher
\* threat confidence than another neighbour only when that lower-risk neighbour
\* is loop-flagged.
HigherThreatOnlyPastFlagged ==
    SearchMoved
    => \A n \in Neighbours(last.pos) :
          MaxThreat(n) < MaxThreat(last.cell) => LoopFlagged(n)

\* the search has passed over a loop-flagged neighbour of zero threat and moved
\* to an unflagged neighbour confirmed at 1.0
PassedOverFlagged ==
    /\ SearchMoved
    /\ ~LoopFlagged(last.cell)
    /\ MaxThreat(last.cell) = 10
    /\ \E n \in Neighbours(last.pos) : MaxThreat(n) = 0 /\ LoopFlagged(n)

\* C20 as stated: the search returns a loop-flagged neighbour only when every
\* neighbour is loop-flagged, and otherwise an unflagged neighbour of the highest
\* tier that has one.
FallThroughAllTiers ==
    SearchMoved
    => /\ LoopFlagged(last.cell) => \A n \in Neighbours(last.pos) : LoopFlagged(n)
       /\ ~LoopFlagged(last.cell)
          => \A n \in Neighbours(last.pos) :
                ~LoopFlagged(n) => TierRank(n) <= TierRank(last.cell)

\* C20 amended: the search falls through one score group only. An unflagged
\* neighbour it returns has the highest score among the unflagged neighbours; a
\* loop-flagged neighbour it returns has the highest score of all, and every
\* unflagged neighbour then lies at least two score groups below it.
FallThroughOneGroup ==
    SearchMoved
    => /\ ~LoopFlagged(last.cell)
          => \A n \in Neighbours(last.pos) :
                ~LoopFlagged(n) => ScoreOf(n) <= ScoreOf(last.cell)
       /\ LoopFlagged(last.cell)
          => /\ \A n \in Neighbours(last.pos) : ScoreOf(n) <= ScoreOf(last.cell)
             /\ \A n \in Neighbours(last.pos) :
                   ~LoopFlagged(n)
                   => \E m \in Neighbours(last.pos) :
                         ScoreOf(n) < ScoreOf(m) /\ ScoreOf(m) < ScoreOf(last.cell)

\* the search has returned a loop-flagged neighbour although an unflagged
\* neighbour stood two score groups further down
LoopForcedPastUnflagged ==
    /\ SearchMoved
    /\ LoopFlagged(last.cell)
    /\ \E n \in Neighbours(last.pos) : ~LoopFlagged(n)

\* the last k entries of a history (all of them when it holds fewer)
LastEntries(h, k) == SubSeq(h, Max2(1, Len(h) - k + 1), Len(h))

\* the last 6 entries alternate with period 2 and contain c three times
AlternatesOn(h, c) ==
    /\ Len(h) >= 6
    /\ LET l == LastEntries(h, 6)
       IN  /\ l[1] = l[3] /\ l[3] = l[5]
           /\ l[2] = l[4] /\ l[4] = l[6]
           /\ CountIn(l, c) >= 3

\* the loop flag as the two conditions on the history describe it
FlagConditions(h, c) == CountIn(LastEntries(h, 4), c) >= 2 \/ AlternatesOn(h, c)

\* C21 as stated: a cell is loop-flagged exactly when it occurs twice within the
\* last 4 entries of the history, however many entries there are, or the last 6
\* entries alternate on it.
LoopFlagAnyLength ==
    \A c \in Pos : WouldCreateLoop(move_history, c) <=> FlagConditions(move_history, c)

\* C21 amended: a cell is loop-flagged exactly when the history holds at least 4
\* entries and the cell occurs twice within the last 4 of them; the alternation
\* over the last 6 entries flags no further cell.
LoopFlagFromFourEntries ==
    \A c \in Pos :
       /\ WouldCreateLoop(move_history, c)
          <=> (Len(move_history) >= 4 /\ FlagConditions(move_history, c))
       /\ AlternatesOn(move_history, c) => CountIn(LastEntries(move_history, 4), c) >= 2

\* a history of 6 entries or more alternates between two cells, both flagged, and
\* a third cell of the grid occurring once in it is not flagged
AlternationFlagged ==
    /\ Len(move_history) >= 6
    /\ \E c \in Pos : AlternatesOn(move_history, c) /\ WouldCreateLoop(move_history, c)
    /\ \E d \in Pos : CountIn(move_history, d) = 1 /\ ~WouldCreateLoop(move_history, d)

\* both confidences of a cell are 0.0
ZeroThreat(p) == GetConfidence(Kb, p, "pit") = 0 /\ GetConfidence(Kb, p, "wumpus") = 0

RECURSIVE HomeWithin(_)
\* the cells from which (0,0) is reached in at most k steps, every cell stepped
\* on having confidence 0.0 for both threats
HomeWithin(k) ==
    IF k = 0 THEN {<<0, 0>>}
    ELSE LET near == HomeWithin(k - 1)
         IN  near \cup {p \in Pos : \E n \in Neighbours(p) : n \in near /\ ZeroThreat(n)}

\* the depth bound of the search for the exit
ExitSearchDepth == 4

\* C22: with the treasure located and the agent away from (0,0), when a path of
\* at most 4 steps to (0,0) through cells of confidence 0.0 exists, the exit
\* search returns the direction of the first step of such a path.
ExitPathFound ==
    (/\ last.op = "decide"
     /\ gold_cell # None
     /\ last.pos # <<0, 0>>
     /\ last.pos \in HomeWithin(ExitSearchDepth))
    => /\ FindPathToExit(Kb, last.pos) # None
       /\ LET n == TargetOf(last.pos, FindPathToExit(Kb, last.pos))
          IN  ZeroThreat(n) /\ n \in HomeWithin(ExitSearchDepth - 1)

\* an update at a cell with one danger signal, seen from the state before it
SingleSignalStep ==
    /\ calls' = calls + 1
    /\ last'.op = "update"
    /\ PerceptType(last'.percepts) \in {"B", "S"}

\* some neighbour of p is confirmed (confidence 1.0) for the threat
HasConfirmed(p, threat) == \E n \in Neighbours(p) : GetConfidence(Kb, n, threat) = 10

\* C23: a single-signal update at a cell with a confirmed neighbour lowers every
\* other unvisited neighbour's confidence for the threat to 0.2, leaves a
\* neighbour at 0.0 at 0.0 and the confirmed neighbour at 1.0, and sets no
\* neighbour to 0.5 or 1.0.
ConfirmedLowersOthers ==
    [][(SingleSignalStep /\ HasConfirmed(last'.pos, ThreatOf(last'.percepts)))
       => LET t == ThreatOf(last'.percepts)
          IN  \A n \in Neighbours(last'.pos) :
                 LET before == GetConfidence(Kb, n, t)
                     after  == GetConfidence(Kb', n, t)
                 IN  /\ before = 10 => after = 10
                     /\ (~Visited(n) /\ before \notin {0, 10}) => after = LoweredConfidence
                     /\ before = 0 => after = 0
                     /\ after \in {5, 10} => after = before]_vars

\* a Breeze update has left one neighbour confirmed, lowered another to 0.2 and
\* left a third, unvisited, at 0.0
LoweredBesideConfirmed ==
    /\ last.op = "update" /\ PerceptType(last.percepts) = "B"
    /\ \E n, m, k \in Neighbours(last.pos) :
          /\ GetConfidence(Kb, n, "pit") = 10
          /\ ~Visited(m) /\ GetConfidence(Kb, m, "pit") = LoweredConfidence
          /\ ~Visited(k) /\ GetConfidence(Kb, k, "pit") = 0

\* the fact names the handlers record for a threat
DefiniteName(threat) == IF threat = "pit" THEN "DefinitePit" ELSE "DefiniteWumpus"
PossibleName(threat) == IF threat = "pit" THEN "PossiblePit" ELSE "PossibleWumpus"

\* the neighbours of p suspected (confidence 0.5) of the threat, and the unvisited ones
SuspectedAt(p, threat) == {n \in Neighbours(p) : GetConfidence(Kb, n, threat) = 5}
UnvisitedAt(p) == {n \in Neighbours(p) : ~Visited(n)}

\* the first two outcomes of a single-signal update without confirmed neighbour:
\* the single suspected neighbour, else the single unvisited neighbour, is
\* promoted to 1.0 and no other neighbour changes
PromotionOutcome(p, t, cell) ==
    /\ Fact(DefiniteName(t), cell) \in facts'
    /\ \A n \in Neighbours(p) :
          GetConfidence(Kb', n, t) = IF n = cell THEN 10 ELSE GetConfidence(Kb, n, t)

\* the third outcome, for the set of neighbours it marks
SuspicionOutcome(p, t, marked) ==
    \A n \in Neighbours(p) :
       IF n \in marked
       THEN GetConfidence(Kb', n, t) = 5 /\ Fact(PossibleName(t), n) \in facts'
       ELSE GetConfidence(Kb', n, t) = GetConfidence(Kb, n, t)

\* the three outcomes in their order, the third one marking the set marked
BranchOrder(p, t, marked) ==
    IF Cardinality(SuspectedAt(p, t)) = 1
    THEN \A c \in SuspectedAt(p, t) : PromotionOutcome(p, t, c)
    ELSE IF Cardinality(UnvisitedAt(p)) = 1
    THEN \A c \in UnvisitedAt(p) : PromotionOutcome(p, t, c)
    ELSE SuspicionOutcome(p, t, marked)

\* C24 as stated: the third outcome marks every neighbour not already proven Safe.
SingleSignalBranches ==
    [][(SingleSignalStep /\ ~HasConfirmed(last'.pos, ThreatOf(last'.percepts)))
       => BranchOrder(last'.pos, ThreatOf(last'.percepts),
                      {n \in Neighbours(last'.pos) : Fact("Safe", n) \notin facts})]_vars

\* C24 amended: the third outcome marks every unvisited neighbour not already
\* proven Safe; a visited neighbour keeps its confidence.
SingleSignalBranchesUnvisited ==
    [][(SingleSignalStep /\ ~HasConfirmed(last'.pos, ThreatOf(last'.percepts)))
       => BranchOrder(last'.pos, ThreatOf(last'.percepts),
                      {n \in Neighbours(last'.pos) :
                          ~Visited(n) /\ Fact("Safe", n) \notin facts})]_vars

\* a Breeze update has marked two unvisited neighbours 0.5 and left a visited
\* neighbour that is not a Safe fact at 0.0
SuspicionSkippedVisited ==
    /\ last.op = "update" /\ PerceptType(last.percepts) = "B"
    /\ \A n \in Neighbours(last.pos) : GetConfidence(Kb, n, "pit") # 10
    /\ \E n, m, k \in Neighbours(last.pos) :
          /\ n # m
          /\ ~Visited(n) /\ GetConfidence(Kb, n, "pit") = 5
          /\ ~Visited(m) /\ GetConfidence(Kb, m, "pit") = 5
          /\ Visited(k) /\ Fact("Safe", k) \notin facts /\ GetConfidence(Kb, k, "pit") = 0

\* the other threat kind
OtherThreat(t) == IF t = "pit" THEN "wumpus" ELSE "pit"

\* for a confirmed kind t at p: the unvisited neighbours that are not confirmed
RemainingAt(p, t) == {n \in Neighbours(p) : ~Visited(n) /\ GetConfidence(Kb, n, t) # 10}

\* C25: in an update with both signals at a cell with a neighbour confirmed for one
\* kind, the other kind is deduced over the remaining unvisited neighbours (1.0
\* for a single candidate, 0.5 otherwise) and the confirmed neighbour keeps its
\* confidences.
DualSignalDeduction ==
    [][\A t \in Threats :
          (/\ calls' = calls + 1
           /\ last'.op = "update"
           /\ PerceptType(last'.percepts) = "T"
           /\ HasConfirmed(last'.pos, t)
           /\ ~HasConfirmed(last'.pos, OtherThreat(t)))
          => LET o     == OtherThreat(t)
                 cands == RemainingAt(last'.pos, t)
             IN  /\ \A n \in cands :
                       GetConfidence(Kb', n, o) = IF Cardinality(cands) = 1 THEN 10 ELSE 5
                 /\ \A n \in Neighbours(last'.pos) :
                       GetConfidence(Kb, n, t) = 10
                       => /\ GetConfidence(Kb', n, t) = 10
                          /\ GetConfidence(Kb', n, o) = GetConfidence(Kb, n, o)]_vars

\* C26: an update whose percepts contain Glitter, with or without Breeze and
\* Stench, leaves the confidence of every cell for every threat as it was.
TreasureUpdateKeepsConfidence ==
    [][(calls' = calls + 1 /\ last'.op = "update" /\ "Glitter" \in last'.percepts)
       => /\ cell_confidence' = cell_confidence
          /\ \A q \in Pos, k \in Threats :
                GetConfidence(Kb', q, k) = GetConfidence(Kb, q, k)]_vars

\* an update with Glitter, Breeze and Stench has left the unvisited neighbours of
\* its cell without suspicion, while another cell is suspected from an earlier update
TreasureBesideDanger ==
    /\ last.op = "update"
    /\ last.percepts = {"Glitter", "Breeze", "Stench"}
    /\ \E n \in Neighbours(last.pos) : ~Visited(n) /\ Fact("Safe", n) \notin facts
    /\ \A n \in Neighbours(last.pos) : ~Visited(n) => MaxThreat(n) = 0
    /\ \E q \in Pos : MaxThreat(q) = 5

\* the playing grid of a store as __init__ builds it
FreshGrid == [p \in Pos |-> IF p = <<0, 0>> THEN "1" ELSE "0"]

\* the grid of the store that has the facts and confidences of the current one
\* and was projected from a fresh grid
TwinGrid == UpdatePlayingGridFromKb([Kb EXCEPT !.grid = FreshGrid]).grid

ScoredAt(score) == {n \in Neighbours(last.pos) : ScoreOf(n) = score}

\* the scores of the neighbours below the best one
LowerScores == {ScoreOf(n) : n \in Neighbours(last.pos)} \ {MaxOf({ScoreOf(n) : n \in Neighbours(last.pos)})}

\* the group of neighbours the search hands to the selection at the last
\* decision: the unflagged cells of the best score, else the unflagged cells of
\* the second score, else all cells of the best score
SelectedGroup ==
    LET best      == ScoredAt(MaxOf({ScoreOf(n) : n \in Neighbours(last.pos)}))
        second    == IF LowerScores = {} THEN {} ELSE ScoredAt(MaxOf(LowerScores))
        openBest  == {n \in best : ~LoopFlagged(n)}
        openSecond == {n \in second : ~LoopFlagged(n)}
    IN  IF openBest # {} THEN openBest
        ELSE IF openSecond # {} THEN openSecond
        ELSE best

\* the last call is a decision taken by the exploration search
SearchDecided == last.op = "decide" /\ last.via = "explore"

\* the exploration score: 3 for each unvisited neighbour with both confidences
\* at most 0.2, 1 for each unvisited cell within the 2-cell box around the cell
ExplorationScore(c) ==
    3 * Cardinality({n \in Neighbours(c) :
                        /\ ~Visited(n)
                        /\ GetConfidence(Kb, n, "pit") <= LoweredConfidence
                        /\ GetConfidence(Kb, n, "wumpus") <= LoweredConfidence})
    + Cardinality({q \in Pos \ {c} :
                      /\ q[1] - c[1] \in -2 .. 2
                      /\ q[2] - c[2] \in -2 .. 2
                      /\ ~Visited(q)})

\* C28: when the selected group holds several neighbours of zero threat that are
\* unvisited, the search returns a move to one of them with the highest
\* exploration score.
ExplorationScoreChoice ==
    (/\ SearchDecided
     /\ Cardinality(SelectedGroup) >= 2
     /\ \A c \in SelectedGroup : ZeroThreat(c) /\ ~Visited(c))
    => /\ last.action \in MoveActions
       /\ last.cell \in SelectedGroup
       /\ \A c \in SelectedGroup : ExplorationScore(c) <= ExplorationScore(last.cell)

\* the distance between two cells in steps between adjacent cells of the grid
StepsBetween(a, b) ==
    (IF a[1] >= b[1] THEN a[1] - b[1] ELSE b[1] - a[1])
    + (IF a[2] >= b[2] THEN a[2] - b[2] ELSE b[2] - a[2])

\* the cells without a Visited fact
UnvisitedCellsOfGrid == {q \in Pos : ~Visited(q)}

\* c is at most as far from the nearest unvisited cell as d is
NotFartherThan(c, d) ==
    \A q \in UnvisitedCellsOfGrid :
       \E r \in UnvisitedCellsOfGrid : StepsBetween(c, r) <= StepsBetween(d, q)

\* the selected group holds several neighbours, all visited and of zero threat
BacktrackCase ==
    /\ SearchDecided
    /\ Cardinality(SelectedGroup) >= 2
    /\ \A c \in SelectedGroup : ZeroThreat(c) /\ Visited(c)

\* C29: when the selected group holds several visited neighbours of zero threat,
\* the search returns one of them that is nearest to an unvisited cell, and it
\* returns one of them also when every cell of the grid is visited.
BacktrackNearestUnvisited ==
    BacktrackCase
    => /\ last.action \in MoveActions
       /\ last.cell \in SelectedGroup
       /\ \A c \in SelectedGroup : NotFartherThan(last.cell, c)

\* the backtrack selection has chosen between a nearer and a farther candidate
BacktrackChoseNearer ==
    /\ BacktrackCase
    /\ last.action \in MoveActions
    /\ \E c \in SelectedGroup : ~NotFartherThan(c, last.cell)

\* the rules that add their conclusion during one pass of the for loop over the
\* rule list, from rule i on
RECURSIVE FiredFrom(_, _)
FiredFrom(F, i) ==
    IF i > Len(Rules) THEN {}
    ELSE IF CanInfer(F, Rules[i]) /\ Rules[i].conclusion \notin F
         THEN {i} \cup FiredFrom(F \cup {Rules[i].conclusion}, i + 1)
         ELSE FiredFrom(F, i + 1)

\* one forward_chain call on F, seen being the rules that added their conclusion
\* in the passes before: the number of passes of the while loop (the last pass
\* adds nothing), the number of times a rule adds its conclusion, and whether
\* some rule adds its conclusion in two passes
RECURSIVE ChainRun(_, _)
ChainRun(F, seen) ==
    LET fired == FiredFrom(F, 1)
    IN  IF fired = {}
        THEN [passes |-> 1, firings |-> 0, again |-> FALSE]
        ELSE LET rest == ChainRun(ChainPass(F, 1), seen \cup fired)
             IN  [passes |-> rest.passes + 1,
                  firings |-> rest.firings + Cardinality(fired),
                  again |-> rest.again \/ fired \cap seen # {}]

\* the percepts of the updates whose closing forward_chain is examined
ChainPercepts == {{}, {"Breeze"}, {"Stench"}}

\* the fact sets forward_chain can be called with now: the facts as they are, and
\* the facts an update that can be called now hands to its closing forward_chain
ChainInputs ==
    {facts} \cup
    {AddFactTo(ProcessPercept(Kb, p, PerceptType(percepts)), Fact("Visited", p)).facts :
        p \in NextPositions, percepts \in ChainPercepts}

\* C30: forward_chain ends on every fact set it can be called with, over the rule
\* list of add_wumpus_rules; during one call no rule adds its conclusion twice,
\* every addition is a new fact of the result, and the number of passes is at
\* most the number of additions plus one, hence at most the number of rules plus
\* one.
ForwardChainBounded ==
    \A F \in ChainInputs :
        LET run == ChainRun(F, {})
        IN  /\ ~run.again
            /\ run.firings = Cardinality(ForwardChainFacts(F) \ F)
            /\ run.firings <= Len(Rules)
            /\ run.passes <= run.firings + 1
            /\ run.passes <= Len(Rules) + 1

\* forward_chain is about to run on facts given to add_fact from which several
\* rules add their conclusion, a pass that adds nothing closing the call
ChainHasWork ==
    /\ last.op = "add_fact"
    /\ ChainRun(facts, {}).firings >= 4
    /\ ChainRun(facts, {}).passes = 2

\* the four parts of the store
store == <<facts, cell_confidence, playing_grid, gold_cell>>

\* the call made from the current state is one the step loop makes: its update,
\* its decide, or the set_gold_found that follows a decide returning GRAB
StepLoopCall ==
    \/ last'.op \in {"update", "decide"}
    \/ /\ last'.op = "set_gold_found"
       /\ last.op = "decide"
       /\ last.action = "GRAB"

NamedCell(p, action) ==
    CASE action = "MOVE_UP"    -> <<p[1], p[2] - 1>>
      [] action = "MOVE_DOWN"  -> <<p[1], p[2] + 1>>
      [] action = "MOVE_LEFT"  -> <<p[1] - 1, p[2]>>
      [] action = "MOVE_RIGHT" -> <<p[1] + 1, p[2]>>
      [] OTHER -> p

\* determine_next_action has returned an action that starts with MOVE_
ReturnedMove ==
    /\ last.op = "decide"
    /\ last.action \notin {"GRAB", "STAY", "ERROR"}

\* C32: every MOVE returned by determine_next_action from an in-grid position
\* names one of UP, DOWN, LEFT, RIGHT and names an in-grid cell orthogonally
\* adjacent to the position: the cell the search selected, and the cell
\* get_new_position moves the agent to, its clamping never acting.
MoveStaysInGrid ==
    ReturnedMove =>
        /\ last.action \in MoveActions
        /\ InGrid(NamedCell(last.pos, last.action))
        /\ NamedCell(last.pos, last.action) \in SeqToSet(GetAdjacentCells(last.pos))
        /\ TargetOf(last.pos, last.action) = NamedCell(last.pos, last.action)
        /\ last.via = "explore" => last.cell = NamedCell(last.pos, last.action)

\* a MOVE has been returned from the border cell (2,0), where UP and RIGHT would
\* leave the grid
MovedFromBorder ==
    /\ ReturnedMove
    /\ last.pos = <<GridSize - 1, 0>>

\* the coroutine has run its update_knowledge_base and has not yet applied the
\* action of the step
InsideStep(t) == tasks[t].pc \in {"decide", "apply"}

\* C33: with two run_ai_agent tasks and /api/step requests on one episode, no
\* two executions of execute_agent_step are at the same time between their
\* update_knowledge_base and the application of their action, the execution that
\* is there holds the event loop, and its determine_next_action sees the store
\* exactly as its own update left it.
StepsSerialized ==
    /\ \A t, u \in Tasks : (InsideStep(t) /\ InsideStep(u)) => t = u
    /\ \A t \in Tasks : InsideStep(t) => running = t
    /\ \A t \in Tasks : tasks[t].pc = "decide" => Kb = tasks[t].store

\* /api/start has been invoked twice and both run_ai_agent tasks are waiting for
\* the event loop while the step of an /api/step request is between its update
\* and its decide
StepAmongActiveLoops ==
    /\ tasks["step"].pc = "decide"
    /\ \A t \in LoopTasks : tasks[t].pc = "loop"

\* C34: in every state reached by update_knowledge_base calls, every position c
\* with Safe(c) in the fact set has confidence 0.0 for pit and for wumpus.
SafeMeansZeroConfidence ==
    \A c \in Pos :
        Fact("Safe", c) \in facts
            => /\ GetConfidence(Kb, c, "pit") = 0
               /\ GetConfidence(Kb, c, "wumpus") = 0

\* C35: in a fixed environment with truthful percepts, for any walk of a
\* surviving agent from (0,0), every cell with pit confidence 1.0 holds a pit and
\* every cell with wumpus confidence 1.0 holds a wumpus.
ConfirmationsSound ==
    \A c \in Pos :
        /\ GetConfidence(Kb, c, "pit") = 10 => c \in world.pits
        /\ GetConfidence(Kb, c, "wumpus") = 10 => c \in world.wumpus

\* C36: in a fixed environment with truthful percepts, starting from Safe(0,0)
\* and Visited(0,0) with the Wumpus rules registered, for any walk of a surviving
\* agent every cell c with Safe(c) in the fact set holds neither a pit nor a
\* wumpus.
SafeSound ==
    \A c \in Pos : Fact("Safe", c) \in facts => ~IsDangerousCell(world, c)

\* in an environment with a pit and a wumpus, Safe(c) has been derived by the
\* rules for an unvisited cell c that two signal cells had put under suspicion
SafeDerivedBesideHazards ==
    /\ world.pits # {}
    /\ world.wumpus # {}
    /\ \E c \in Pos :
          /\ Fact("Safe", c) \in facts
          /\ ~Visited(c)
          /\ GetConfidence(Kb, c, "pit") = 5
          /\ GetConfidence(Kb, c, "wumpus") = 5

\* C37: in every state reached through truthful percepts no position c has
\* NoPit(c) together with DefinitePit(c), NoWumpus(c) together with
\* DefiniteWumpus(c), or Safe(c) together with DefinitePit(c) or DefiniteWumpus(c).
FactsConsistent ==
    \A c \in Pos :
        /\ ~(Fact("NoPit", c) \in facts /\ Fact("DefinitePit", c) \in facts)
        /\ ~(Fact("NoWumpus", c) \in facts /\ Fact("DefiniteWumpus", c) \in facts)
        /\ ~(Fact("Safe", c) \in facts
             /\ (Fact("DefinitePit", c) \in facts \/ Fact("DefiniteWumpus", c) \in facts))

\* C38: once the confidence of a cell c for a threat is 1.0, no update whose
\* percepts hold Breeze or Stench changes it; it changes only through a
\* no-signal update at a neighbour of c, which sets it to 0.0.
ConfirmationKept ==
    [][\A c \in Pos : \A k \in {"pit", "wumpus"} :
          (GetConfidence(Kb, c, k) = 10 /\ GetConfidence(Kb', c, k) # 10)
              => /\ last'.op = "update"
                 /\ PerceptType(last'.percepts) = "-"
                 /\ c \in SeqToSet(GetAdjacentCells(last'.pos))
                 /\ GetConfidence(Kb', c, k) = 0]_vars

\* C39: after every determine_next_action call that returns a MOVE, from the
\* exploration search or from the path-to-exit search, the position passed to the
\* call is the last entry of the move history; a call that returns GRAB or STAY
\* leaves the history as it was.
MoveHistoryRecordsMoves ==
    last.op = "decide" =>
        /\ last.action \in MoveActions
              => /\ move_history # <<>>
                 /\ move_history[Len(move_history)] = last.pos
        /\ last.action \in {"GRAB", "STAY"} => move_history = last.hist

\* C40: on any grid with fixed hazards and one treasure the step loop reaches
\* game_over: a run_ai_agent loop that has stopped, by leaving its while loop or
\* by an exception, has stopped on an episode whose game_over holds.
EpisodeEndsBeforeLoopStops ==
    \A t \in LoopTasks : tasks[t].pc \in {"done", "failed"} => game.over

\* once game_over holds, no later step changes the agent's position or the game
\* status
GameOverIsFinal ==
    [][game.over => (pos' = pos /\ game'.status = game.status /\ game'.over)]_vars

====
